---- MODULE Spec2Model ----
(***************************************************************************)
(* Model of the DEGIRO trading API service (custom-trading/api/main.py)    *)
(* and of the order / export helper scripts under _tests/.                 *)
(*                                                                         *)
(* Optional values (Python None / a value) are sets of at most one         *)
(* element: {} is None, {v} is the value v.                                *)
(***************************************************************************)
EXTENDS Integers, Sequences, FiniteSets, TLC

\* ---------------------------------------------------------------- bounds
\* page size of the paginated fetches, scaled down (the endpoint asks for 100
\* products per request, the export scripts for 1000)
batch_size == 3
export_limit == 2
\* largest catalog the server holds
MaxTotal == 7
\* page requests one fetch may issue before the model stops following it
MaxPageRequests == 4
\* worker threads of the batch scan that are modelled (the pool has 5)
NumWorkers == 2
\* requests the event loop accepts in one behaviour
MaxRequests == 2

\* ------------------------------------------------------------ optionals
None == {}
Some(v) == {v}
The(x) == CHOOSE v \in x : TRUE

\* thread 0 is the event-loop thread that runs the async handlers; the
\* others are the ThreadPoolExecutor workers of get_nasdaq_batch_volume
Workers == 1..NumWorkers
Threads == 0..NumWorkers

VARIABLES
    trading_api,   \* the module global: None or the id of a TradingAPI instance
    created,       \* highest id given to a TradingAPI instance that is still around
    connected,     \* ids of the instances whose connect() has completed
    pc,            \* pc[t]: position of thread t
    cont,          \* cont[t]: where thread t continues when get_trading_api returns
    api,           \* api[t]: what the last get_trading_api call of t returned
    connecting,    \* connecting[t]: the instance whose connect() t is inside
    endpoint,      \* the handler the event loop is running
    request,       \* its request body
    order,         \* the Order built by create_degiro_order (None before)
    checking,      \* checking_response of the request's check_order call (None before)
    calls,         \* broker / network calls made while handling the request
    response,      \* what the handler returned or raised (None before)
    nRequests,     \* requests accepted so far
    placeSeen,     \* a place request was accepted in this behaviour
    confirmSeen,   \* confirm_order was called in this behaviour
    depth,         \* depth[t]: _retry_depth of the get_volume_data call t is in
    fetchAttempts, \* fetchAttempts[t]: ticker fetches of t's current volume request
    reconnects,    \* reconnects[t]: reconnect_trading_api calls of that request
    lastFetch,     \* lastFetch[t]: how the latest of those fetches ended
    quoteSessions, \* quoteSessions[t]: quotecast sessions t opened for the current request
    pending,       \* queue of the batch scan's symbols no worker has taken yet
    task,          \* task[t]: the symbol worker t is fetching
    stocks_data,   \* results of the batch scan, in completion order
    loopKind,      \* which paginated fetch runs: the endpoint's or the export script's
    server,        \* how the catalog server behaves in this behaviour
    catalog,       \* number of products the server's catalog holds (ids 1..catalog)
    ppc,           \* position of the paginated fetch
    offset,        \* the loop's offset
    all_products,  \* products the endpoint's loop has collected, in order
    total_products,  \* the endpoint loop's total_products (None before the first page)
    all_leveraged, \* keys of the export script's result dict
    total_processed,  \* the export script's running count
    requestsMade,  \* product_search calls of this fetch
    shortSeen,     \* a page with fewer products than the page size has come back
    requestsAfterShort,  \* product_search calls made after such a page
    pageFailed,    \* a product_search call of this fetch raised
    searchKind,    \* which leveraged search runs: the endpoint's or the dynamic one
    searchRequest, \* its request (None when no search runs)
    inventory,     \* the leveraged products the broker holds for the query, in its order
    spc,           \* position of the search
    search_products,  \* the products the search fetched (`products`)
    leveraged_products_data,  \* the products that passed the filters so far
    leveraged_products,       \* the products of the response (None before)
    prc,           \* position of the pricing call
    price_call,    \* which pricing function runs and with which product ids
    price_env,     \* what the config, the broker and the quote feed answer to it
    price_result,  \* what the pricing function returned or raised (None before)
    wpc,           \* position of the volume frame's decoding
    frame,         \* the records of the ticker's json_text (parsed_data)
    volume_result, \* the volumes decoded from it, or the exception (None before)
    rpc,           \* position of the resolver's call
    resolve_call,  \* which resolver runs, its query and what the search answers
    resolve_result, \* what the resolver returned (None before)
    fpc,           \* position of the filter_by_product_subtype call
    subtype_call,  \* its products and its subtype (None when none runs)
    subtype_result, \* the list it returned (None before)
    qpc,           \* position of the calculate_order_quantity call
    quantity_call, \* its price and its order amount, in cents (None when none runs)
    quantity_result, \* the quantity it returned (None before)
    kpc,           \* position of the ranking
    rank_call,     \* the matches to rank and the target leverage, in tenths (None when none runs)
    ranked,        \* the sorted list (None before)
    mpc,           \* position of the search_stocks_multiple call
    stock_call,    \* its query and its limit (None when none runs)
    attempt,       \* the loop's attempt
    stock_answers, \* how each product_search call of this search ended, in order
    stock_result   \* the list the search returned (None before)

sessionVars == <<trading_api, created, connected>>
threadVars == <<pc, cont, api, connecting>>
orderVars == <<endpoint, request, order, checking, calls, response, nRequests, placeSeen, confirmSeen>>
volumeVars == <<depth, fetchAttempts, reconnects, lastFetch, quoteSessions, pending, task,
               stocks_data>>
\* state of the paginated catalog fetch
pageVars == <<loopKind, server, catalog, ppc, offset, all_products, total_products,
             all_leveraged, total_processed, requestsMade, shortSeen,
             requestsAfterShort, pageFailed>>
\* state of the leveraged product search
searchVars == <<searchKind, searchRequest, inventory, spc, search_products,
               leveraged_products_data,
               leveraged_products>>
\* state of the pricing functions
priceVars == <<prc, price_call, price_env, price_result>>
\* state of the decoding of a volume frame
wireVars == <<wpc, frame, volume_result>>
\* state of the underlying resolver
resolveVars == <<rpc, resolve_call, resolve_result>>
\* state of a filter_by_product_subtype call
subtypeVars == <<fpc, subtype_call, subtype_result>>
\* state of a calculate_order_quantity call
quantityVars == <<qpc, quantity_call, quantity_result>>
\* state of the ranking of the leveraged matches
rankVars == <<kpc, rank_call, ranked>>
\* state of a search_stocks_multiple call
stockVars == <<mpc, stock_call, attempt, stock_answers, stock_result>>
restVars == <<pageVars, searchVars, priceVars, wireVars, resolveVars, subtypeVars, quantityVars, rankVars, stockVars>>
vars == <<sessionVars, threadVars, orderVars, volumeVars, restVars>>
\* what the paginated fetch / the leveraged search leave alone
exceptPage == <<sessionVars, threadVars, orderVars, volumeVars, searchVars, priceVars, wireVars, resolveVars, subtypeVars, quantityVars, rankVars, stockVars>>
exceptSearch == <<sessionVars, threadVars, orderVars, volumeVars, pageVars, priceVars, wireVars, resolveVars, subtypeVars, quantityVars, rankVars, stockVars>>
exceptPrice == <<sessionVars, threadVars, orderVars, volumeVars, pageVars, searchVars, wireVars, resolveVars, subtypeVars, quantityVars, rankVars, stockVars>>
exceptWire == <<sessionVars, threadVars, orderVars, volumeVars, pageVars, searchVars, priceVars, resolveVars, subtypeVars, quantityVars, rankVars, stockVars>>
exceptResolve == <<sessionVars, threadVars, orderVars, volumeVars, pageVars, searchVars,
    priceVars, wireVars, subtypeVars, quantityVars, rankVars, stockVars>>
exceptSubtype == <<sessionVars, threadVars, orderVars, volumeVars, pageVars, searchVars,
    priceVars, wireVars, resolveVars, quantityVars, rankVars, stockVars>>
exceptQuantity == <<sessionVars, threadVars, orderVars, volumeVars, pageVars, searchVars,
    priceVars, wireVars, resolveVars, subtypeVars, rankVars, stockVars>>
exceptRank == <<sessionVars, threadVars, orderVars, volumeVars, pageVars, searchVars,
    priceVars, wireVars, resolveVars, subtypeVars, quantityVars, stockVars>>
exceptStock == <<sessionVars, threadVars, orderVars, volumeVars, pageVars, searchVars,
    priceVars, wireVars, resolveVars, subtypeVars, quantityVars, rankVars>>

\* ------------------------------------------------------ get_trading_api
\* Raising inside get_trading_api: every failure is turned into
\* HTTPException(500); where the thread goes depends on the call site.
HTTP500 == [type |-> "HTTPException", status_code |-> 500]
HTTP422 == [type |-> "HTTPException", status_code |-> 422]
HTTP401 == [type |-> "HTTPException", status_code |-> 401]

\* call sites of get_trading_api and what follows its return / its raise
AfterReturn(site) ==
    CASE site = "check_order" -> "co_body"
      [] site = "place_order" -> "po_check"
      [] site = "get_volume_data" -> "gv_session"
      [] site = "reconnect_trading_api" -> "gv_retry"
      [] site = "get_real_prices_batch" -> "pb_body"
      [] site = "get_nasdaq_batch_volume" -> "b_prices"
      [] site = "batch_prices" -> "b_pb_body"
      [] OTHER -> "respond"
\* the order and batch handlers let the HTTPException out; get_volume_data
\* re-raises it (or wraps it when it comes from the reconnect or the retry)
AfterRaise(site) ==
    IF site \in {"get_volume_data", "reconnect_trading_api", "get_real_prices_batch"}
    THEN "gv_error" ELSE "respond"

\* `if trading_api is None:`
GTA_Test(t) ==
    /\ pc[t] = "gta_test"
    /\ pc' = [pc EXCEPT ![t] = IF trading_api = None THEN "gta_create" ELSE "gta_return"]
    /\ UNCHANGED <<sessionVars, cont, api, connecting, orderVars>>
    /\ UNCHANGED <<depth, fetchAttempts, reconnects, lastFetch, quoteSessions, pending,
                   task, stocks_data, restVars>>

\* credentials are read, then `trading_api = TradingAPI(credentials=credentials)`
GTA_Create(t) ==
    /\ pc[t] = "gta_create"
    /\ \E credentialsOk \in BOOLEAN :
        IF credentialsOk
        THEN /\ created' = created + 1
             /\ trading_api' = Some(created + 1)
             /\ pc' = [pc EXCEPT ![t] = "gta_connect"]
             /\ UNCHANGED <<connected, response>>
        ELSE /\ pc' = [pc EXCEPT ![t] = AfterRaise(cont[t])]
             /\ response' = IF t = 0 THEN Some(HTTP500) ELSE response
             /\ UNCHANGED <<trading_api, created, connected>>
    /\ UNCHANGED <<cont, api, connecting, endpoint, request, order, checking, calls, nRequests,
                   placeSeen, confirmSeen>>
    /\ UNCHANGED <<depth, fetchAttempts, reconnects, lastFetch, quoteSessions, pending,
                   task, stocks_data, restVars>>

\* `trading_api.connect()` starts: the global is loaded and the login request
\* is sent for that instance (AttributeError when the global is None by now)
GTA_ConnectCall(t) ==
    /\ pc[t] = "gta_connect"
    /\ IF trading_api # None
       THEN /\ connecting' = [connecting EXCEPT ![t] = trading_api]
            /\ pc' = [pc EXCEPT ![t] = "gta_connecting"]
            /\ calls' = IF t = 0
                        THEN Append(calls, [op |-> "connect", id |-> None, order |-> None])
                        ELSE calls
            /\ UNCHANGED response
       ELSE /\ pc' = [pc EXCEPT ![t] = AfterRaise(cont[t])]
            /\ response' = IF t = 0 THEN Some(HTTP500) ELSE response
            /\ UNCHANGED <<connecting, calls>>
    /\ UNCHANGED <<sessionVars, cont, api, endpoint, request, order, checking,
                   nRequests, placeSeen, confirmSeen>>
    /\ UNCHANGED <<depth, fetchAttempts, reconnects, lastFetch, quoteSessions, pending,
                   task, stocks_data, restVars>>

\* connect() completes, or raises and `except Exception` raises HTTPException
GTA_ConnectDone(t) ==
    /\ pc[t] = "gta_connecting"
    /\ \E connectOk \in BOOLEAN :
        IF connectOk
        THEN /\ connected' = connected \cup connecting[t]
             /\ pc' = [pc EXCEPT ![t] = "gta_return"]
             /\ UNCHANGED response
        ELSE /\ pc' = [pc EXCEPT ![t] = AfterRaise(cont[t])]
             /\ response' = IF t = 0 THEN Some(HTTP500) ELSE response
             /\ UNCHANGED connected
    /\ connecting' = [connecting EXCEPT ![t] = None]
    /\ UNCHANGED <<trading_api, created, cont, api, endpoint, request, order, checking, calls,
                   nRequests, placeSeen, confirmSeen>>
    /\ UNCHANGED <<depth, fetchAttempts, reconnects, lastFetch, quoteSessions, pending,
                   task, stocks_data, restVars>>

\* `return trading_api`
GTA_Return(t) ==
    /\ pc[t] = "gta_return"
    /\ api' = [api EXCEPT ![t] = trading_api]
    /\ pc' = [pc EXCEPT ![t] = AfterReturn(cont[t])]
    /\ UNCHANGED <<sessionVars, cont, connecting, orderVars>>
    /\ UNCHANGED <<depth, fetchAttempts, reconnects, lastFetch, quoteSessions, pending,
                   task, stocks_data, restVars>>

get_trading_api(t) ==
    GTA_Test(t) \/ GTA_Create(t) \/ GTA_ConnectCall(t) \/ GTA_ConnectDone(t) \/ GTA_Return(t)

\* ------------------------------------------------------- order requests
\* str.upper() on the strings the requests use
Upper(s) ==
    CASE s = "sell" -> "SELL"
      [] s = "market" -> "MARKET"
      [] s = "gtc" -> "GTC"
      [] s = "long" -> "LONG"
      [] OTHER -> s

\* int(product_id): ValueError unless the string is a decimal integer
IsIntLiteral(s) == s \in {"331868", "4711"}
IntOf(s) == CASE s = "331868" -> 331868
              [] s = "4711" -> 4711

ProductIds == {"331868", "abc"}
Actions == {"BUY", "sell", "HOLD"}
OrderTypes == {"LIMIT", "market", "STOP_LOSS", "STOP_LIMIT", "ICEBERG"}
TimeTypes == {"DAY", "gtc", "WEEK"}
Quantities == {0, 1}
Prices == {None, Some(0), Some(5)}
StopPrices == {None, Some(4)}

\* every JSON body that parses as an OrderRequest before field validation
OrderRequests ==
    [product_id : ProductIds, action : Actions, order_type : OrderTypes,
     quantity : Quantities, price : Prices, stop_price : StopPrices,
     time_type : TimeTypes]

\* pydantic's field constraints: quantity gt=0, price / stop_price gt=0 when given
FieldsValid(req) ==
    /\ req.quantity > 0
    /\ \A p \in req.price : p > 0
    /\ \A p \in req.stop_price : p > 0

ValueError(msg) == [ok |-> FALSE, error |-> msg, order |-> None]

\* create_degiro_order: the Order, or the ValueError it raises
create_degiro_order(req) ==
    IF Upper(req.action) \notin {"BUY", "SELL"}
    THEN ValueError("Invalid action")
    ELSE IF Upper(req.order_type) = "LIMIT" /\ req.price = None
    THEN ValueError("Price required for LIMIT orders")
    ELSE IF Upper(req.order_type) = "STOP_LOSS" /\ req.stop_price = None
    THEN ValueError("Stop price required for STOP_LOSS orders")
    ELSE IF Upper(req.order_type) = "STOP_LIMIT"
            /\ (req.price = None \/ req.stop_price = None)
    THEN ValueError("Both price and stop_price required for STOP_LIMIT orders")
    ELSE IF Upper(req.order_type) \notin {"LIMIT", "MARKET", "STOP_LOSS", "STOP_LIMIT"}
    THEN ValueError("Invalid order type")
    ELSE IF Upper(req.time_type) \notin {"DAY", "GTC"}
    THEN ValueError("Invalid time type")
    ELSE IF ~IsIntLiteral(req.product_id)
    THEN ValueError("invalid literal for int()")
    ELSE [ok |-> TRUE, error |-> "",
          order |-> Some([buy_sell |-> Upper(req.action),
                          order_type |-> Upper(req.order_type),
                          product_id |-> IntOf(req.product_id),
                          size |-> req.quantity,
                          time_type |-> IF Upper(req.time_type) = "DAY"
                                        THEN "GOOD_TILL_DAY" ELSE "GOOD_TILL_CANCELED",
                          price |-> req.price,
                          stop_price |-> req.stop_price])]

\* ------------------------------------------------------------ the broker
\* What a call of the connector (check_order / confirm_order) can give back:
\* it raises, returns None, or returns a response object or a mapping that
\* carries the id or lacks it.
ConfirmationIds == {"c1", "c2"}
OrderIds == {"o1"}
BrokerResponses(ids) ==
    {[shape |-> s, id |-> None] :
        s \in {"raise_ValueError", "raise_Exception", "None", "object", "dict"}}
    \cup {[shape |-> s, id |-> Some(i)] : s \in {"object", "dict"}, i \in ids}

\* a session that never logged in cannot get an answer from the broker
Answers(a, ids) ==
    IF a \subseteq connected /\ a # None
    THEN BrokerResponses(ids)
    ELSE {r \in BrokerResponses(ids) : r.shape \in {"raise_Exception", "None"}}

Raises(r) == r.shape \in {"raise_ValueError", "raise_Exception"}
\* bool(response): None is falsy, a response object or non-empty mapping truthy
Truthy(r) == r.shape \in {"object", "dict"}
\* hasattr(response, 'confirmation_id') / hasattr(response, 'order_id')
HasAttr(r) == r.shape = "object" /\ r.id # None

CheckCall(o) == [op |-> "check_order", id |-> None, order |-> o]
ConfirmCall(i, o) == [op |-> "confirm_order", id |-> i, order |-> o]

\* ------------------------------------------------- /api/orders/check
OrderCheckResponse(valid, cid, message, errors) ==
    [type |-> "OrderCheckResponse", valid |-> valid, confirmation_id |-> cid,
     message |-> message, errors |-> errors]

\* `if checking_response and hasattr(checking_response, 'confirmation_id')`
CheckSucceeded(r) == Truthy(r) /\ HasAttr(r)

\* the response check_order builds from what api.check_order gave
CheckOrderResult(r) ==
    IF r.shape = "raise_ValueError"
    THEN OrderCheckResponse(FALSE, None, "Order validation failed", <<r.shape>>)
    ELSE IF r.shape = "raise_Exception"
    THEN OrderCheckResponse(FALSE, None, "Order validation failed",
                            <<"DEGIRO error: ", r.shape>>)
    ELSE IF CheckSucceeded(r)
    THEN OrderCheckResponse(TRUE, r.id, "Order validation successful", <<>>)
    ELSE OrderCheckResponse(FALSE, None, "Order validation failed",
                            <<"Unknown validation error">>)

\* a request arrives: the API key dependency, pydantic validation of the body,
\* then the handler starts with `api = get_trading_api()`
Receive(ep, req, authorized) ==
    /\ pc[0] = "idle"
    /\ nRequests < MaxRequests
    /\ nRequests' = nRequests + 1
    /\ endpoint' = ep
    /\ request' = Some(req)
    /\ order' = None
    /\ checking' = None
    /\ calls' = <<>>
    /\ placeSeen' = (placeSeen \/ ep = "place_order")
    /\ IF ~authorized
       THEN /\ response' = Some(HTTP401)
            /\ pc' = [pc EXCEPT ![0] = "respond"]
            /\ UNCHANGED cont
       ELSE IF ~FieldsValid(req)
       THEN /\ response' = Some(HTTP422)
            /\ pc' = [pc EXCEPT ![0] = "respond"]
            /\ UNCHANGED cont
       ELSE /\ response' = None
            /\ pc' = [pc EXCEPT ![0] = "gta_test"]
            /\ cont' = [cont EXCEPT ![0] = ep]
    /\ UNCHANGED <<sessionVars, api, connecting, confirmSeen>>
    /\ UNCHANGED <<volumeVars, restVars>>

\* a check_order that goes on to confirm what it has just checked
CO_BodyConfirming ==
    /\ pc[0] = "co_body"
    /\ LET c == create_degiro_order(The(request)) IN
       IF ~c.ok \/ api[0] = None
       THEN /\ response' = Some(OrderCheckResponse(FALSE, None, "Order validation failed",
                                                   <<c.error>>))
            /\ UNCHANGED <<order, checking, calls, confirmSeen>>
       ELSE \E r \in Answers(api[0], ConfirmationIds) :
            /\ order' = c.order
            /\ checking' = IF Raises(r) THEN None ELSE Some(r)
            /\ response' = Some(CheckOrderResult(r))
            /\ IF CheckSucceeded(r)
               THEN /\ calls' = calls \o <<CheckCall(c.order), ConfirmCall(r.id, c.order)>>
                    /\ confirmSeen' = TRUE
               ELSE /\ calls' = Append(calls, CheckCall(c.order))
                    /\ UNCHANGED confirmSeen
    /\ pc' = [pc EXCEPT ![0] = "respond"]
    /\ UNCHANGED <<sessionVars, cont, api, connecting, endpoint, request, nRequests,
                   placeSeen>>
    /\ UNCHANGED <<volumeVars, restVars>>

\* the try block of check_order
CO_Body ==
    /\ pc[0] = "co_body"
    /\ LET c == create_degiro_order(The(request)) IN
       IF ~c.ok
       THEN /\ response' = Some(OrderCheckResponse(FALSE, None, "Order validation failed",
                                                   <<c.error>>))
            /\ UNCHANGED <<order, checking, calls>>
       ELSE IF api[0] = None
       THEN /\ response' = Some(CheckOrderResult([shape |-> "raise_Exception", id |-> None]))
            /\ order' = c.order
            /\ UNCHANGED <<checking, calls>>
       ELSE \E r \in Answers(api[0], ConfirmationIds) :
            /\ order' = c.order
            /\ calls' = Append(calls, CheckCall(c.order))
            /\ checking' = IF Raises(r) THEN None ELSE Some(r)
            /\ response' = Some(CheckOrderResult(r))
    /\ pc' = [pc EXCEPT ![0] = "respond"]
    /\ UNCHANGED <<sessionVars, cont, api, connecting, endpoint, request, nRequests,
                   placeSeen, confirmSeen>>
    /\ UNCHANGED <<volumeVars, restVars>>

\* the response is sent; the handler's locals and its request's counters are
\* gone. No thread is left that references an instance other than the
\* global's one: the replaced instances are garbage, and the surviving one
\* is renamed to 1 (instance ids are names only).
Respond ==
    /\ pc[0] = "respond"
    /\ pc' = [pc EXCEPT ![0] = "idle"]
    /\ endpoint' = ""
    /\ request' = None
    /\ order' = None
    /\ checking' = None
    /\ calls' = <<>>
    /\ response' = None
    /\ cont' = [cont EXCEPT ![0] = ""]
    /\ api' = [api EXCEPT ![0] = None]
    /\ depth' = [depth EXCEPT ![0] = 0]
    /\ fetchAttempts' = [fetchAttempts EXCEPT ![0] = 0]
    /\ reconnects' = [reconnects EXCEPT ![0] = 0]
    /\ lastFetch' = [lastFetch EXCEPT ![0] = ""]
    /\ quoteSessions' = [quoteSessions EXCEPT ![0] = 0]
    /\ stocks_data' = <<>>
    /\ trading_api' = IF trading_api = None THEN None ELSE Some(1)
    /\ created' = IF trading_api = None THEN 0 ELSE 1
    /\ connected' = IF trading_api # None /\ trading_api \subseteq connected THEN {1} ELSE {}
    /\ UNCHANGED <<connecting, nRequests, placeSeen, confirmSeen, pending, task, restVars>>

\* ------------------------------------------------- /api/orders/place
OrderResponse(success, oid, cid, message) ==
    [type |-> "OrderResponse", success |-> success, order_id |-> oid,
     confirmation_id |-> cid, message |-> message]

\* `if not checking_response or not hasattr(checking_response, 'confirmation_id')`
\* is the early return; otherwise place_order goes on to confirm
ProceedsToConfirm(r) == ~(~Truthy(r) \/ ~HasAttr(r))

\* the confirmation_id argument of api.confirm_order
ConfirmationArgument(r) == r.id

\* what the except clauses of place_order return for a raised exception
PlaceOrderRaised(r) ==
    IF r.shape = "raise_ValueError"
    THEN OrderResponse(FALSE, None, None, <<"Invalid order parameters: ", r.shape>>)
    ELSE OrderResponse(FALSE, None, None, <<"Order placement failed: ", r.shape>>)

\* Step 1 of place_order: create_degiro_order and api.check_order
PO_Check ==
    /\ pc[0] = "po_check"
    /\ LET c == create_degiro_order(The(request)) IN
       IF ~c.ok
       THEN /\ response' = Some(OrderResponse(FALSE, None, None,
                                              <<"Invalid order parameters: ", c.error>>))
            /\ pc' = [pc EXCEPT ![0] = "respond"]
            /\ UNCHANGED <<order, checking, calls>>
       ELSE IF api[0] = None
       THEN /\ response' = Some(PlaceOrderRaised([shape |-> "raise_Exception", id |-> None]))
            /\ pc' = [pc EXCEPT ![0] = "respond"]
            /\ order' = c.order
            /\ UNCHANGED <<checking, calls>>
       ELSE \E r \in Answers(api[0], ConfirmationIds) :
            /\ order' = c.order
            /\ calls' = Append(calls, CheckCall(c.order))
            /\ IF Raises(r)
               THEN /\ response' = Some(PlaceOrderRaised(r))
                    /\ pc' = [pc EXCEPT ![0] = "respond"]
                    /\ UNCHANGED checking
               ELSE IF ~ProceedsToConfirm(r)
               THEN /\ response' = Some(OrderResponse(FALSE, None, None,
                                                      <<"Order validation failed">>))
                    /\ pc' = [pc EXCEPT ![0] = "respond"]
                    /\ checking' = Some(r)
               ELSE /\ checking' = Some(r)
                    /\ pc' = [pc EXCEPT ![0] = "po_confirm"]
                    /\ UNCHANGED response
    /\ UNCHANGED <<sessionVars, cont, api, connecting, endpoint, request, nRequests,
                   placeSeen, confirmSeen>>
    /\ UNCHANGED <<volumeVars, restVars>>

\* Step 2 of place_order: api.confirm_order and the response built from it
PO_Confirm ==
    /\ pc[0] = "po_confirm"
    /\ \E r \in Answers(api[0], OrderIds) :
        /\ calls' = Append(calls, ConfirmCall(ConfirmationArgument(The(checking)), order))
        /\ response' = Some(
              IF Raises(r) THEN PlaceOrderRaised(r)
              ELSE IF Truthy(r) /\ HasAttr(r)
              THEN OrderResponse(TRUE, r.id, The(checking).id, <<"Order placed successfully">>)
              ELSE OrderResponse(FALSE, None, None, <<"Order confirmation failed">>))
    /\ confirmSeen' = TRUE
    /\ pc' = [pc EXCEPT ![0] = "respond"]
    /\ UNCHANGED <<sessionVars, cont, api, connecting, endpoint, request, order, checking,
                   nRequests, placeSeen>>
    /\ UNCHANGED <<volumeVars, restVars>>

\* ------------------------------- place_leveraged_order (helper script)
\* amounts and prices are in cents
LeveragedProducts == [id : ProductIds, last_price : {None, Some(0), Some(4830)}]
OrderAmounts == {2000, 25000}
EstimatedPrice == 850

\* int(a / b) for b > 0: the quotient truncated towards zero
IntQuotient(a, b) == IF a >= 0 THEN a \div b ELSE -((-a) \div b)
\* a sizing that returns the truncated quotient as it is
calculate_order_quantity_unclamped(price, order_amount) ==
    IF price <= 0 THEN 0 ELSE IntQuotient(order_amount, price)
\* calculate_order_quantity: (0, 0.0) for a price <= 0, else max(1, int(amount / price))
calculate_order_quantity(price, order_amount) ==
    IF price <= 0 THEN 0
    ELSE IF IntQuotient(order_amount, price) >= 1 THEN IntQuotient(order_amount, price) ELSE 1

\* `product.get('last_price') or ... ` then the estimate when nothing is truthy
CurrentPrice(product) ==
    IF product.last_price = None \/ product.last_price = Some(0)
    THEN EstimatedPrice ELSE The(product.last_price)

NoneResult == [type |-> "None"]
UncaughtException == [type |-> "Exception"]

\* the value place_leveraged_order reads from a truthy response: the attribute
\* when hasattr(), else response.get(key), which is None for a missing key
\* and an AttributeError for an object that is no mapping
GetRaises(r) == r.shape = "object" /\ ~HasAttr(r)
FieldOf(r) == r.id

\* the script starts: prices, quantity and the Order are computed before the try
PLO_Start(product, order_amount) ==
    /\ pc[0] = "idle"
    /\ nRequests < MaxRequests
    /\ nRequests' = nRequests + 1
    /\ endpoint' = "place_leveraged_order"
    /\ request' = Some(product)
    /\ checking' = None
    /\ calls' = <<>>
    /\ placeSeen' = TRUE
    /\ IF ~IsIntLiteral(product.id)
       THEN /\ response' = Some(UncaughtException)
            /\ order' = None
            /\ pc' = [pc EXCEPT ![0] = "respond"]
       ELSE /\ response' = None
            /\ order' = Some([buy_sell |-> "BUY", order_type |-> "LIMIT",
                              product_id |-> IntOf(product.id),
                              size |-> calculate_order_quantity(CurrentPrice(product),
                                                                order_amount),
                              time_type |-> "GOOD_TILL_DAY",
                              price |-> Some(CurrentPrice(product) * 102),
                              stop_price |-> None])
            /\ pc' = [pc EXCEPT ![0] = "plo_check"]
    /\ UNCHANGED <<sessionVars, cont, api, connecting, confirmSeen>>
    /\ UNCHANGED <<volumeVars, restVars>>

\* trading_api.check_order(order=order) and the reading of its confirmation id
PLO_Check ==
    /\ pc[0] = "plo_check"
    /\ \E r \in BrokerResponses(ConfirmationIds) :
        /\ calls' = Append(calls, CheckCall(order))
        /\ IF Raises(r) \/ ~Truthy(r) \/ GetRaises(r)
           THEN /\ response' = Some(NoneResult)
                /\ pc' = [pc EXCEPT ![0] = "respond"]
                /\ UNCHANGED checking
           ELSE /\ checking' = Some(r)
                /\ pc' = [pc EXCEPT ![0] = "plo_confirm"]
                /\ UNCHANGED response
    /\ UNCHANGED <<sessionVars, cont, api, connecting, endpoint, request, order, nRequests,
                   placeSeen, confirmSeen>>
    /\ UNCHANGED <<volumeVars, restVars>>

\* the auto-confirm: trading_api.confirm_order(confirmation_id, order)
PLO_Confirm ==
    /\ pc[0] = "plo_confirm"
    /\ \E r \in BrokerResponses(OrderIds) :
        /\ calls' = Append(calls, ConfirmCall(FieldOf(The(checking)), order))
        /\ response' = Some(
              IF Raises(r) \/ ~Truthy(r) \/ GetRaises(r) THEN NoneResult
              ELSE [type |-> "dict", order_id |-> FieldOf(r),
                    confirmation_id |-> FieldOf(The(checking))])
    /\ confirmSeen' = TRUE
    /\ pc' = [pc EXCEPT ![0] = "respond"]
    /\ UNCHANGED <<sessionVars, cont, api, connecting, endpoint, request, order, checking,
                   nRequests, placeSeen>>
    /\ UNCHANGED <<volumeVars, restVars>>

\* ------------------------------------------ the order endpoints alone
InitSession ==
    /\ trading_api = None
    /\ created = 0
    /\ connected = {}
    /\ pc = [t \in Threads |-> "idle"]
    /\ cont = [t \in Threads |-> ""]
    /\ api = [t \in Threads |-> None]
    /\ connecting = [t \in Threads |-> None]

InitVolume ==
    /\ depth = [t \in Threads |-> 0]
    /\ fetchAttempts = [t \in Threads |-> 0]
    /\ reconnects = [t \in Threads |-> 0]
    /\ lastFetch = [t \in Threads |-> ""]
    /\ quoteSessions = [t \in Threads |-> 0]
    /\ pending = <<>>
    /\ task = [t \in Threads |-> None]
    /\ stocks_data = <<>>

InitPage ==
    /\ loopKind = "endpoint"
    /\ server = "stable"
    /\ catalog = 0
    /\ ppc = "idle"
    /\ offset = 0
    /\ all_products = <<>>
    /\ total_products = None
    /\ all_leveraged = {}
    /\ total_processed = 0
    /\ requestsMade = 0
    /\ shortSeen = FALSE
    /\ requestsAfterShort = 0
    /\ pageFailed = FALSE

InitSearch ==
    /\ searchKind = "endpoint"
    /\ searchRequest = None
    /\ inventory = <<>>
    /\ spc = "idle"
    /\ search_products = <<>>
    /\ leveraged_products_data = <<>>
    /\ leveraged_products = None

InitPrice ==
    /\ prc = "idle"
    /\ price_call = None
    /\ price_env = None
    /\ price_result = None

InitWire ==
    /\ wpc = "idle"
    /\ frame = <<>>
    /\ volume_result = None

InitResolve ==
    /\ rpc = "idle"
    /\ resolve_call = None
    /\ resolve_result = None

InitSubtype ==
    /\ fpc = "idle"
    /\ subtype_call = None
    /\ subtype_result = None

InitQuantity ==
    /\ qpc = "idle"
    /\ quantity_call = None
    /\ quantity_result = None

InitRank ==
    /\ kpc = "idle"
    /\ rank_call = None
    /\ ranked = None

InitStock ==
    /\ mpc = "idle"
    /\ stock_call = None
    /\ attempt = 0
    /\ stock_answers = <<>>
    /\ stock_result = None

InitOrder ==
    /\ InitSession
    /\ InitVolume
    /\ InitPage
    /\ InitSearch
    /\ InitPrice
    /\ InitWire
    /\ InitResolve
    /\ InitSubtype
    /\ InitQuantity
    /\ InitRank
    /\ InitStock
    /\ endpoint = ""
    /\ request = None
    /\ order = None
    /\ checking = None
    /\ calls = <<>>
    /\ response = None
    /\ nRequests = 0
    /\ placeSeen = FALSE
    /\ confirmSeen = FALSE

ReceiveOrder ==
    /\ pc[0] = "idle"
    /\ nRequests < MaxRequests
    /\ \E ep \in {"check_order", "place_order"}, req \in OrderRequests, authorized \in BOOLEAN :
        Receive(ep, req, authorized)

StartLeveraged ==
    /\ pc[0] = "idle"
    /\ nRequests < MaxRequests
    /\ \E product \in LeveragedProducts, order_amount \in OrderAmounts :
        PLO_Start(product, order_amount)

NextOrder ==
    \/ ReceiveOrder
    \/ get_trading_api(0)
    \/ CO_Body
    \/ PO_Check
    \/ PO_Confirm
    \/ StartLeveraged
    \/ PLO_Check
    \/ PLO_Confirm
    \/ Respond

SpecOrder == InitOrder /\ [][NextOrder]_vars

\* ---------------------------------------------- claims on the orders
ConfirmCalls == {i \in 1..Len(calls) : calls[i].op = "confirm_order"}
CheckCalls == {i \in 1..Len(calls) : calls[i].op = "check_order"}
OrderEndpoints == {"check_order", "place_order"}
\* the request body fails pydantic's constraints or create_degiro_order
FailsLocalValidation ==
    /\ request # None
    /\ \/ ~FieldsValid(The(request))
       \/ ~create_degiro_order(The(request)).ok

\* C1: in place_order and place_leveraged_order every confirm_order call comes
\* after a check_order call of the same request that returned a confirmation
\* id, and carries exactly that id and the same order.
C1_ConfirmOnlyAfterCheckedId ==
    \A i \in ConfirmCalls :
        /\ \E j \in CheckCalls : j < i /\ calls[j].order = calls[i].order
        /\ checking # None
        /\ The(checking).id # None
        /\ calls[i].id = The(checking).id

\* C3: an order check that fails local validation is answered without any
\* network call.
C3_LocalRejectWithoutNetwork ==
    (pc[0] = "respond" /\ endpoint = "check_order" /\ FailsLocalValidation)
        => calls = <<>>

\* C4: as long as only /api/orders/check was requested, confirm_order was
\* never invoked: checking an order places nothing.
C4_CheckNeverConfirms ==
    ~placeSeen => (~confirmSeen /\ ConfirmCalls = {})

\* C4's case: a check request whose order the broker validated
C4_Witness ==
    /\ pc[0] = "respond"
    /\ endpoint = "check_order"
    /\ ~placeSeen
    /\ response # None
    /\ The(response).type = "OrderCheckResponse"
    /\ The(response).valid

\* C5: whatever fails while check_order or place_order runs, the handler
\* returns an OrderCheckResponse / OrderResponse and lets no exception out
\* (401 and 422 are the framework's, raised before the handler runs).
C5_NoExceptionEscapes ==
    (pc[0] = "respond" /\ endpoint \in OrderEndpoints /\ response # None)
        => \/ The(response).type \in {"OrderCheckResponse", "OrderResponse"}
           \/ The(response) \in {HTTP401, HTTP422}

\* ------------------------------------------------------ get_volume_data
\* An error text is the set of the marker words its lower-cased form contains.
ErrorTexts ==
    {{"unauthorized"}, {"401", "unauthorized"}, {"session", "expired"}, {"session"},
     {"login"}, {"timeout"}, {}}

\* is_session_expired(error_message)
is_session_expired(text) ==
    \/ "401" \in text
    \/ "unauthorized" \in text
    \/ ("session" \in text /\ ("expired" \in text \/ "invalid" \in text))
    \/ "login" \in text
    \/ "authentication" \in text
    \/ "credential" \in text

\* a ShouldReconnect that forgets the retry depth
ShouldReconnectAlways(text, d) == is_session_expired(text)
\* `if is_session_expired(error_msg) and _retry_depth == 0:`
ShouldReconnect(text, d) == is_session_expired(text) /\ d = 0

HTTP503 == [type |-> "HTTPException", status_code |-> 503]
HTTP404 == [type |-> "HTTPException", status_code |-> 404]

\* `except Exception as e:` of get_volume_data for an exception with this text:
\* reconnect and retry once, else HTTPException(503)
GV_Except(t, text) ==
    pc' = [pc EXCEPT ![t] = IF ShouldReconnect(text, depth[t]) THEN "rc_reset"
                            ELSE "gv_error"]

\* get_volume_data is called with the default _retry_depth:
\* `api = get_trading_api()`
GV_Start(t) ==
    /\ pc[t] = "gv_start"
    /\ depth' = [depth EXCEPT ![t] = 0]
    /\ cont' = [cont EXCEPT ![t] = "get_volume_data"]
    /\ pc' = [pc EXCEPT ![t] = "gta_test"]
    /\ UNCHANGED <<sessionVars, api, connecting, orderVars, fetchAttempts, reconnects,
                   lastFetch, quoteSessions, pending, task, stocks_data, restVars>>

\* the user token is read from the config, then TickerFetcher.build_session()
\* and get_session_id(user_token) open a quotecast session
GV_Session(t) ==
    /\ pc[t] = "gv_session"
    /\ \/ /\ quoteSessions' = [quoteSessions EXCEPT ![t] = @ + 1]
          /\ pc' = [pc EXCEPT ![t] = "gv_fetch"]
       \/ \E http \in {"no user token", "no session id"} :
          /\ pc' = [pc EXCEPT ![t] = "gv_error"]
          /\ UNCHANGED quoteSessions
       \/ \E text \in ErrorTexts :
          /\ GV_Except(t, text)
          /\ UNCHANGED quoteSessions
    /\ UNCHANGED <<sessionVars, cont, api, connecting, orderVars, depth, fetchAttempts,
                   reconnects, lastFetch, pending, task, stocks_data, restVars>>

\* TickerFetcher.subscribe / fetch_ticker and the decoding of the frame
GV_Fetch(t) ==
    /\ pc[t] = "gv_fetch"
    /\ fetchAttempts' = [fetchAttempts EXCEPT ![t] = @ + 1]
    /\ \/ /\ lastFetch' = [lastFetch EXCEPT ![t] = "ok"]
          /\ pc' = [pc EXCEPT ![t] = "gv_price"]
       \/ /\ lastFetch' = [lastFetch EXCEPT ![t] = "no data"]
          /\ pc' = [pc EXCEPT ![t] = "gv_error"]
       \/ \E text \in ErrorTexts :
          /\ lastFetch' = [lastFetch EXCEPT ![t] = IF is_session_expired(text)
                                                   THEN "expired" ELSE "failed"]
          /\ GV_Except(t, text)
    /\ UNCHANGED <<sessionVars, cont, api, connecting, orderVars, depth, reconnects,
                   quoteSessions, pending, task, stocks_data, restVars>>

\* get_real_prices_batch([degiro_id]) starts: config, then `api = get_trading_api()`
GV_Price(t) ==
    /\ pc[t] = "gv_price"
    /\ \/ /\ cont' = [cont EXCEPT ![t] = "get_real_prices_batch"]
          /\ pc' = [pc EXCEPT ![t] = "gta_test"]
       \/ /\ pc' = [pc EXCEPT ![t] = "gv_error"]
          /\ UNCHANGED cont
    /\ UNCHANGED <<sessionVars, api, connecting, orderVars, volumeVars, restVars>>

\* the rest of get_real_prices_batch: metadata lookup, a quotecast session
\* of its own, the ticker fetch; every failure but an HTTPException gives {}
PricesBatchOutcomes(a) ==
    IF a # None /\ a \subseteq connected
    THEN {"metadata failed", "no session id", "ticker failed", "priced"}
    ELSE {"metadata failed"}
PB_Body(t) ==
    /\ pc[t] = "pb_body"
    /\ \E o \in PricesBatchOutcomes(api[t]) :
        /\ quoteSessions' = IF o \in {"ticker failed", "priced"}
                            THEN [quoteSessions EXCEPT ![t] = @ + 1] ELSE quoteSessions
        /\ pc' = [pc EXCEPT ![t] = IF o = "no session id" THEN "gv_error" ELSE "gv_done"]
    /\ UNCHANGED <<sessionVars, cont, api, connecting, orderVars, depth, fetchAttempts,
                   reconnects, lastFetch, pending, task, stocks_data, restVars>>

\* reconnect_trading_api: `trading_api = None`, then get_trading_api()
RC_Reset(t) ==
    /\ pc[t] = "rc_reset"
    /\ trading_api' = None
    /\ reconnects' = [reconnects EXCEPT ![t] = @ + 1]
    /\ cont' = [cont EXCEPT ![t] = "reconnect_trading_api"]
    /\ pc' = [pc EXCEPT ![t] = "gta_test"]
    /\ UNCHANGED <<created, connected, api, connecting, orderVars, depth, fetchAttempts,
                   lastFetch, quoteSessions, pending, task, stocks_data, restVars>>

\* `return get_volume_data(symbol, degiro_id, vwd_id, _retry_depth=1)`
GV_Retry(t) ==
    /\ pc[t] = "gv_retry"
    /\ depth' = [depth EXCEPT ![t] = 1]
    /\ cont' = [cont EXCEPT ![t] = "get_volume_data"]
    /\ pc' = [pc EXCEPT ![t] = "gta_test"]
    /\ UNCHANGED <<sessionVars, api, connecting, orderVars, fetchAttempts, reconnects,
                   lastFetch, quoteSessions, pending, task, stocks_data, restVars>>

get_volume_data(t) ==
    \/ GV_Start(t) \/ GV_Session(t) \/ GV_Fetch(t) \/ GV_Price(t) \/ PB_Body(t)
    \/ RC_Reset(t) \/ GV_Retry(t)

\* ------------------------------------------- /api/volume/opening/{symbol}
VolumeResponse == [type |-> "VolumeResponse"]

\* get_volume_opening: the API key, the NASDAQ mapping lookup, then
\* `return get_volume_data(symbol_upper, degiro_id, vwd_id)`
ReceiveVolume ==
    /\ pc[0] = "idle"
    /\ nRequests < MaxRequests
    /\ nRequests' = nRequests + 1
    /\ endpoint' = "volume_opening"
    /\ \E lookup \in {"unauthorized", "unknown symbol", "no mapping", "found"} :
        /\ response' = CASE lookup = "unauthorized" -> Some(HTTP401)
                         [] lookup = "unknown symbol" -> Some(HTTP404)
                         [] lookup = "no mapping" -> Some(HTTP503)
                         [] OTHER -> None
        /\ pc' = [pc EXCEPT ![0] = IF lookup = "found" THEN "gv_start" ELSE "respond"]
    /\ UNCHANGED <<sessionVars, cont, api, connecting, request, order, checking, calls,
                   placeSeen, confirmSeen, volumeVars, restVars>>

\* get_volume_data returned to the endpoint
VolumeReturn ==
    /\ pc[0] = "gv_done"
    /\ response' = Some(VolumeResponse)
    /\ pc' = [pc EXCEPT ![0] = "respond"]
    /\ UNCHANGED <<sessionVars, cont, api, connecting, endpoint, request, order, checking,
                   calls, nRequests, placeSeen, confirmSeen, volumeVars, restVars>>

\* get_volume_data raised: an HTTPException of the first call goes out as it
\* is, everything else (and everything after the reconnect) as a 503
VolumeRaise ==
    /\ pc[0] = "gv_error"
    /\ response' = IF reconnects[0] = 0 /\ response # None THEN response ELSE Some(HTTP503)
    /\ pc' = [pc EXCEPT ![0] = "respond"]
    /\ UNCHANGED <<sessionVars, cont, api, connecting, endpoint, request, order, checking,
                   calls, nRequests, placeSeen, confirmSeen, volumeVars, restVars>>

InitVolumeEndpoint == InitOrder

NextVolume ==
    \/ ReceiveVolume
    \/ get_trading_api(0)
    \/ get_volume_data(0)
    \/ VolumeReturn
    \/ VolumeRaise
    \/ Respond

\* the handler is synchronous code on the event loop: once entered it runs on
SpecVolume == InitVolumeEndpoint /\ [][NextVolume]_vars /\ WF_vars(NextVolume)

\* ------------------------------------------------- /api/volume/nasdaq
\* symbols of the NASDAQ mapping, in the mapping's order
NumSymbols == 2
Symbols == [i \in 1..NumSymbols |-> i]

\* get_nasdaq_batch_volume starts: the API key, then `api = get_trading_api()`
ReceiveBatch ==
    /\ pc[0] = "idle"
    /\ \A t \in Workers : pc[t] = "idle"
    /\ nRequests < MaxRequests
    /\ nRequests' = nRequests + 1
    /\ endpoint' = "volume_nasdaq"
    /\ \E authorized \in BOOLEAN :
        IF authorized
        THEN /\ response' = None
             /\ cont' = [cont EXCEPT ![0] = "get_nasdaq_batch_volume"]
             /\ pc' = [pc EXCEPT ![0] = "gta_test"]
        ELSE /\ response' = Some(HTTP401)
             /\ pc' = [pc EXCEPT ![0] = "respond"]
             /\ UNCHANGED cont
    /\ UNCHANGED <<sessionVars, api, connecting, request, order, checking, calls,
                   placeSeen, confirmSeen, volumeVars, restVars>>

\* `batch_prices = get_real_prices_batch(all_degiro_ids)`: the config, then
\* get_trading_api()
B_Prices ==
    /\ pc[0] = "b_prices"
    /\ \/ /\ cont' = [cont EXCEPT ![0] = "batch_prices"]
          /\ pc' = [pc EXCEPT ![0] = "gta_test"]
          /\ UNCHANGED response
       \/ /\ response' = Some(HTTP503)
          /\ pc' = [pc EXCEPT ![0] = "respond"]
          /\ UNCHANGED cont
    /\ UNCHANGED <<sessionVars, api, connecting, endpoint, request, order, checking, calls,
                   nRequests, placeSeen, confirmSeen, volumeVars, restVars>>

\* the rest of that get_real_prices_batch call, then every symbol is submitted
\* to the ThreadPoolExecutor
B_Submit ==
    /\ pc[0] = "b_pb_body"
    /\ \E o \in PricesBatchOutcomes(api[0]) :
        /\ quoteSessions' = IF o \in {"ticker failed", "priced"}
                            THEN [quoteSessions EXCEPT ![0] = @ + 1] ELSE quoteSessions
        /\ IF o = "no session id"
           THEN /\ response' = Some(HTTP503)
                /\ pc' = [pc EXCEPT ![0] = "respond"]
                /\ UNCHANGED pending
           ELSE /\ pending' = Symbols
                /\ pc' = [pc EXCEPT ![0] = "b_wait"]
                /\ UNCHANGED response
    /\ UNCHANGED <<sessionVars, cont, api, connecting, endpoint, request, order, checking,
                   calls, nRequests, placeSeen, confirmSeen, depth, fetchAttempts,
                   reconnects, lastFetch, task, stocks_data, restVars>>

\* a free worker takes the next submitted task: get_single_volume_data sleeps,
\* returns None for a symbol without ids, else calls get_volume_data
W_Take(t) ==
    /\ pc[t] = "idle"
    /\ pending # <<>>
    /\ pending' = Tail(pending)
    /\ \E mapped \in BOOLEAN :
        IF mapped
        THEN /\ task' = [task EXCEPT ![t] = Some(Head(pending))]
             /\ pc' = [pc EXCEPT ![t] = "gv_start"]
        ELSE UNCHANGED <<task, pc>>
    /\ UNCHANGED <<sessionVars, cont, api, connecting, orderVars, depth, fetchAttempts,
                   reconnects, lastFetch, quoteSessions, stocks_data, restVars>>

\* get_single_volume_data returns: its locals and those of the calls it made
\* are gone
WorkerReturns(t) ==
    /\ cont' = [cont EXCEPT ![t] = ""]
    /\ api' = [api EXCEPT ![t] = None]
    /\ depth' = [depth EXCEPT ![t] = 0]
    /\ fetchAttempts' = [fetchAttempts EXCEPT ![t] = 0]
    /\ reconnects' = [reconnects EXCEPT ![t] = 0]
    /\ lastFetch' = [lastFetch EXCEPT ![t] = ""]
    /\ quoteSessions' = [quoteSessions EXCEPT ![t] = 0]

\* get_volume_data returned: the future completes with the VolumeResponse and
\* `stocks_data.append(result)` runs for it
W_Done(t) ==
    /\ pc[t] = "gv_done"
    /\ stocks_data' = Append(stocks_data, The(task[t]))
    /\ task' = [task EXCEPT ![t] = None]
    /\ pc' = [pc EXCEPT ![t] = "idle"]
    /\ WorkerReturns(t)
    /\ UNCHANGED <<sessionVars, connecting, orderVars, pending, restVars>>

\* a worker whose exception leaves future.result() and ends the handler
W_FailAborting(t) ==
    /\ pc[t] = "gv_error"
    /\ task' = [task EXCEPT ![t] = None]
    /\ pc' = [pc EXCEPT ![t] = "idle", ![0] = "respond"]
    /\ response' = Some(HTTP500)
    /\ WorkerReturns(t)
    /\ UNCHANGED <<sessionVars, connecting, endpoint, request, order, checking, calls,
                   nRequests, placeSeen, confirmSeen, pending, stocks_data, restVars>>
\* get_volume_data raised: `except Exception` makes the task's result None
W_Fail(t) ==
    /\ pc[t] = "gv_error"
    /\ task' = [task EXCEPT ![t] = None]
    /\ pc' = [pc EXCEPT ![t] = "idle"]
    /\ WorkerReturns(t)
    /\ UNCHANGED <<sessionVars, connecting, orderVars, pending, stocks_data, restVars>>

NasdaqBatchResponse(stocks) ==
    [type |-> "NasdaqBatchResponse", stocks |-> stocks, total_stocks |-> Len(stocks)]

\* every future is done: `stocks_data.sort(key=lambda x: x.symbol)` and return
B_Collect ==
    /\ pc[0] = "b_wait"
    /\ pending = <<>>
    /\ \A t \in Workers : pc[t] = "idle"
    /\ stocks_data' = SortSeq(stocks_data, LAMBDA a, b : a < b)
    /\ response' = Some(NasdaqBatchResponse(stocks_data'))
    /\ pc' = [pc EXCEPT ![0] = "respond"]
    /\ UNCHANGED <<sessionVars, cont, api, connecting, endpoint, request, order, checking,
                   calls, nRequests, placeSeen, confirmSeen, depth, fetchAttempts,
                   reconnects, lastFetch, quoteSessions, pending, task, restVars>>

InitSessionScan == InitOrder

Worker(t) == W_Take(t) \/ get_trading_api(t) \/ get_volume_data(t) \/ W_Done(t) \/ W_Fail(t)

NextSession ==
    \/ ReceiveBatch
    \/ get_trading_api(0)
    \/ B_Prices
    \/ B_Submit
    \/ \E t \in Workers : Worker(t)
    \/ B_Collect
    \/ Respond

SpecSession == InitSessionScan /\ [][NextSession]_vars

\* ------------------------------------- claims on the volume requests
\* C6: one get_volume_data request makes at most 2 ticker fetches (the
\* original and one after a reconnect) and at most 1 reconnect, a session-expiry
\* failure of the second fetch ends the request with HTTPException(503), and
\* every request that enters get_volume_data is answered.
C6_FetchBound ==
    /\ fetchAttempts[0] <= 2
    /\ reconnects[0] <= 1
    /\ depth[0] <= 1
    /\ (fetchAttempts[0] = 2 /\ lastFetch[0] = "expired")
         => /\ pc[0] \in {"gv_error", "respond"}
            /\ pc[0] = "respond" => response = Some(HTTP503)
C6_ReconnectBound ==
    /\ []C6_FetchBound
    /\ (pc[0] = "gv_start") ~> (pc[0] = "respond")

\* C6's case: the fetch failed with a session-expiry error, the session was
\* rebuilt, the second fetch failed the same way and the request got its 503
C6_Witness ==
    /\ endpoint = "volume_opening"
    /\ pc[0] = "respond"
    /\ fetchAttempts[0] = 2
    /\ reconnects[0] = 1
    /\ lastFetch[0] = "expired"
    /\ response = Some(HTTP503)

\* C7: no thread holds, as the result of get_trading_api, an instance that
\* another thread is still inside connect() for and that no connect() has
\* completed on.
C7_NoHalfBuiltSession ==
    \A t \in Threads : \A u \in Threads \ {t} :
        (api[t] # None /\ connecting[u] = api[t]) => api[t] \subseteq connected

\* C8: during the batch scan no worker opens a quotecast session of its own.
C8_WorkersShareQuoteSession ==
    endpoint = "volume_nasdaq" => \A t \in Workers : quoteSessions[t] = 0

\* ------------------------------------------------- paginated fetches
Range(a, b) == [i \in 1..(b - a + 1) |-> a + i - 1]
Min(a, b) == IF a <= b THEN a ELSE b
Elements(q) == {q[i] : i \in 1..Len(q)}

ServerModes == {"stable", "nototal", "hostile"}
Loops == {"endpoint", "export"}

\* What product_search(request, raw=True) gives back for (offset, limit):
\* a stable catalog answers the slice and reports its size as 'total'
\* ("nototal": without the 'total' key); a hostile server answers anything:
\* a page of any length up to limit with any or no total, something that is
\* no dict with 'products', or an exception.
Page(products, total) == [kind |-> "dict", products |-> products, total |-> total]
Slice(off, lim) == IF off >= catalog THEN <<>> ELSE Range(off + 1, Min(off + lim, catalog))
ServerResponses(off, lim) ==
    IF server = "stable" THEN {Page(Slice(off, lim), Some(catalog))}
    ELSE IF server = "nototal" THEN {Page(Slice(off, lim), None)}
    ELSE {Page(Range(off + 1, off + n), t) :
              n \in 0..lim, t \in {None, Some(0), Some(MaxTotal)}}
         \cup {[kind |-> "other", products |-> <<>>, total |-> None],
               [kind |-> "raise", products |-> <<>>, total |-> None]}

\* search_results.get('total', 0)
TotalOrZero(r) == IF r.total = None THEN 0 ELSE The(r.total)

\* an offset that advances one short of the page size
NextOffsetOverlapping(off, lim) == off + lim - 1
\* the endpoint's `offset += batch_size`, the scripts' `offset += limit`
NextOffset(off, lim) == off + lim

\* `if total_products and len(all_products) >= total_products: break`
EndpointTotalReached(total, n) == total # None /\ The(total) # 0 /\ n >= The(total)

\* `if len(products) < limit or total_processed >= total_available: break`
ExportStops(n, lim, processed, total_available) == n < lim \/ processed >= total_available

\* the response is a page with fewer products than were asked for
IsShort(r, lim) == r.kind = "dict" /\ Len(r.products) < lim

\* a fetch starts: which loop, against which server and catalog
StartFetch(kind, mode, size) ==
    /\ ppc = "idle"
    /\ loopKind' = kind
    /\ server' = mode
    /\ catalog' = size
    /\ ppc' = "loop"
    /\ offset' = 0
    /\ all_products' = <<>>
    /\ total_products' = None
    /\ all_leveraged' = {}
    /\ total_processed' = 0
    /\ requestsMade' = 0
    /\ shortSeen' = FALSE
    /\ requestsAfterShort' = 0
    /\ pageFailed' = FALSE
    /\ UNCHANGED exceptPage

\* one pass of the `while True` of the /api/leveraged/search handler; an
\* exception of product_search reaches the handler's `except Exception`, which
\* raises HTTPException(500): the fetch has "failed" and delivers nothing
EndpointPage ==
    /\ ppc = "loop"
    /\ loopKind = "endpoint"
    /\ requestsMade < MaxPageRequests
    /\ \E r \in ServerResponses(offset, batch_size) :
        LET total == IF offset = 0 /\ r.kind = "dict"
                     THEN Some(TotalOrZero(r)) ELSE total_products
            got == all_products \o r.products
        IN  /\ total_products' = total
            /\ IF r.kind = "raise" THEN
                    /\ ppc' = "failed"
                    /\ UNCHANGED <<all_products, offset>>
               ELSE IF r.kind = "dict" /\ r.products # <<>> THEN
                    /\ all_products' = got
                    /\ offset' = NextOffset(offset, batch_size)
                    /\ ppc' = IF EndpointTotalReached(total, Len(got))
                              THEN "done" ELSE "loop"
               ELSE /\ ppc' = "done"
                    /\ UNCHANGED <<all_products, offset>>
            /\ shortSeen' = (shortSeen \/ IsShort(r, batch_size))
            /\ pageFailed' = (pageFailed \/ r.kind = "raise")
    /\ requestsAfterShort' = IF shortSeen THEN requestsAfterShort + 1 ELSE requestsAfterShort
    /\ requestsMade' = requestsMade + 1
    /\ UNCHANGED <<loopKind, server, catalog, all_leveraged, total_processed>>
    /\ UNCHANGED exceptPage

\* one pass of the `while True` of export_leveraged_products /
\* export_underlying_stocks
ExportPage ==
    /\ ppc = "loop"
    /\ loopKind = "export"
    /\ requestsMade < MaxPageRequests
    /\ \E r \in ServerResponses(offset, export_limit) :
        LET processed == total_processed + Len(r.products) IN
        /\ IF r.kind = "dict" /\ r.products # <<>> THEN
                /\ all_leveraged' = all_leveraged \cup Elements(r.products)
                /\ total_processed' = processed
                /\ IF ExportStops(Len(r.products), export_limit, processed, TotalOrZero(r))
                   THEN ppc' = "done" /\ UNCHANGED offset
                   ELSE ppc' = "loop" /\ offset' = NextOffset(offset, export_limit)
           ELSE /\ ppc' = "done"
                /\ UNCHANGED <<all_leveraged, total_processed, offset>>
        /\ shortSeen' = (shortSeen \/ IsShort(r, export_limit))
        /\ pageFailed' = (pageFailed \/ r.kind = "raise")
    /\ requestsAfterShort' = IF shortSeen THEN requestsAfterShort + 1 ELSE requestsAfterShort
    /\ requestsMade' = requestsMade + 1
    /\ UNCHANGED <<loopKind, server, catalog, all_products, total_products>>
    /\ UNCHANGED exceptPage

\* the caller has the result; the next fetch may start
FinishFetch ==
    /\ ppc \in {"done", "failed"}
    /\ ppc' = "idle"
    /\ UNCHANGED <<loopKind, server, catalog, offset, all_products, total_products,
                   all_leveraged, total_processed, requestsMade, shortSeen,
                   requestsAfterShort, pageFailed>>
    /\ UNCHANGED exceptPage

InitFetch ==
    /\ InitSession
    /\ InitVolume
    /\ InitPage
    /\ InitSearch
    /\ InitPrice
    /\ InitWire
    /\ InitResolve
    /\ InitSubtype
    /\ InitQuantity
    /\ InitRank
    /\ InitStock
    /\ endpoint = ""
    /\ request = None
    /\ order = None
    /\ checking = None
    /\ calls = <<>>
    /\ response = None
    /\ nRequests = 0
    /\ placeSeen = FALSE
    /\ confirmSeen = FALSE

StartAnyFetch ==
    /\ ppc = "idle"
    /\ \E kind \in Loops, mode \in ServerModes, size \in 0..MaxTotal :
        StartFetch(kind, mode, size)

NextFetch ==
    \/ StartAnyFetch
    \/ EndpointPage
    \/ ExportPage
    \/ FinishFetch

SpecFetch == InitFetch /\ [][NextFetch]_vars

\* ------------------------------------------ claims on the pagination
\* C9: against a stable catalog that reports total = T, the finished fetch
\* holds exactly the T products of the catalog, each once, in order.
C9_PaginationExhaustive ==
    (ppc = "done" /\ server = "stable") =>
        IF loopKind = "endpoint"
        THEN all_products = Range(1, catalog)
        ELSE total_processed = catalog /\ all_leveraged = 1..catalog

\* C9's case: three pages (full, full, short) concatenated by the endpoint
C9_Witness ==
    /\ ppc = "done"
    /\ server = "stable"
    /\ loopKind = "endpoint"
    /\ requestsMade = 3
    /\ catalog = 2 * batch_size + 1
    /\ Len(all_products) = catalog

\* C10: once a page with fewer products than the page size has come back, no
\* further page request is issued.
C10_StopsAtShortPage == requestsAfterShort = 0

\* C11: when a page request after the first fails, the fetch still hands what
\* the earlier pages brought to its caller instead of failing as a whole.
C11_PartialResultSurvives ==
    (pageFailed /\ requestsMade > 1 /\ ppc \in {"done", "failed"}) => ppc = "done"

\* ------------------------------------------- leveraged product search
\* longest inventory the broker holds for one query
MaxInventory == 4
\* the dynamic search asks for one page of 100 products, scaled down
dynamic_limit == 3

\* A product of the broker's answer. Leverage is in tenths (44 is 4.4). A
\* name is the set of the marker phrases its lower-cased form contains.
Product(id, leverage, shortlong, tradable, name) ==
    [id |-> id, leverage |-> leverage, shortlong |-> shortlong, tradable |-> tradable,
     name |-> name]
MiniLong == {"mini long", "mini"}
MiniShort == {"mini short", "mini"}
UnlimitedLong == {"unlimited long", "unlimited"}
Pool ==
    {Product(1, 32, "L", TRUE, MiniLong),
     Product(2, 44, "L", TRUE, UnlimitedLong),
     Product(3, 44, "S", TRUE, MiniShort),
     Product(4, 60, "L", TRUE, MiniLong),
     Product(5, 46, "L", TRUE, MiniLong),
     Product(6, 48, "L", FALSE, MiniLong)}
ById(i) == CHOOSE q \in Pool : q.id = i
\* the inventories: every sequence of distinct products of the pool
Inventories ==
    {inv \in UNION {[1..k -> Pool] : k \in 0..MaxInventory} :
        \A i \in DOMAIN inv : \A j \in DOMAIN inv : inv[i] = inv[j] => i = j}

\* LeveragedSearchRequest / ProductSearchRequest (the latter has no subtype)
SearchRequests ==
    [action : {"LONG", "SHORT", "long"}, min_leverage : {20, 40}, max_leverage : {50, 100},
     limit : {1, 2}, product_subtype : {"ALL", "MINI", "UNLIMITED"}]

\* `target_direction = "L" if request.action.upper() == "LONG" else "S"`
TargetDirection(action) == IF Upper(action) = "LONG" THEN "L" ELSE "S"

\* a filter condition that forgets the direction
SuitableAnyDirection(q, req) ==
    /\ req.min_leverage <= q.leverage
    /\ q.leverage <= req.max_leverage
    /\ q.tradable
\* the `if` of the filter loops
Suitable(q, req) ==
    /\ req.min_leverage <= q.leverage
    /\ q.leverage <= req.max_leverage
    /\ q.shortlong = TargetDirection(req.action)
    /\ q.tradable

\* the filter loop: append what is suitable, leave the loop once `limit`
\* products are collected
RECURSIVE FilterLoop(_, _, _)
FilterLoop(ps, req, acc) ==
    IF ps = <<>> THEN acc
    ELSE LET next == IF Suitable(Head(ps), req) THEN Append(acc, Head(ps)) ELSE acc
         IN  IF Len(next) >= req.limit THEN next ELSE FilterLoop(Tail(ps), req, next)

\* a CALL_PUT rule that forgets to leave out the mini and unlimited products
SubtypeMatchesLoose(q, subtype) ==
    CASE subtype = "CALL_PUT" -> "call str" \in q.name \/ "put str" \in q.name
      [] subtype = "MINI" -> "mini long" \in q.name \/ "mini short" \in q.name
      [] subtype = "UNLIMITED" -> "unlimited long" \in q.name \/ "unlimited short" \in q.name
      [] OTHER -> FALSE
\* filter_by_product_subtype(products, subtype)
SubtypeMatches(q, subtype) ==
    CASE subtype = "CALL_PUT" ->
            /\ "call str" \in q.name \/ "put str" \in q.name
            /\ "mini" \notin q.name
            /\ "unlimited" \notin q.name
      [] subtype = "MINI" -> "mini long" \in q.name \/ "mini short" \in q.name
      [] subtype = "UNLIMITED" -> "unlimited long" \in q.name \/ "unlimited short" \in q.name
      [] OTHER -> FALSE
filter_by_product_subtype(ps, subtype) ==
    IF subtype = "ALL" THEN ps ELSE SelectSeq(ps, LAMBDA q : SubtypeMatches(q, subtype))

\* a search starts
StartSearch(kind, req, inv) ==
    /\ spc = "idle"
    /\ searchKind' = kind
    /\ searchRequest' = Some(req)
    /\ inventory' = inv
    /\ search_products' = <<>>
    /\ leveraged_products_data' = <<>>
    /\ leveraged_products' = None
    /\ spc' = "fetch"
    /\ UNCHANGED exceptSearch

\* the products are fetched: the endpoint pages through the whole inventory,
\* the dynamic search asks for the first page only. A product_search that
\* raises makes the endpoint raise HTTPException(500) and the dynamic search
\* return [].
SearchFetch ==
    /\ spc = "fetch"
    /\ \E ok \in BOOLEAN :
        IF ok
        THEN /\ search_products' =
                    IF searchKind = "endpoint" THEN inventory
                    ELSE SubSeq(inventory, 1, Min(dynamic_limit, Len(inventory)))
             /\ spc' = "filter"
             /\ UNCHANGED leveraged_products
        ELSE /\ spc' = IF searchKind = "endpoint" THEN "failed" ELSE "done"
             /\ leveraged_products' = IF searchKind = "endpoint" THEN None ELSE Some(<<>>)
             /\ UNCHANGED search_products
    /\ UNCHANGED <<searchKind, searchRequest, inventory, leveraged_products_data>>
    /\ UNCHANGED exceptSearch

\* the filter loop runs; the dynamic search returns its list
SearchFilter ==
    /\ spc = "filter"
    /\ leveraged_products_data' = FilterLoop(search_products, The(searchRequest), <<>>)
    /\ IF searchKind = "endpoint"
       THEN spc' = "subtype" /\ UNCHANGED leveraged_products
       ELSE spc' = "done" /\ leveraged_products' = Some(leveraged_products_data')
    /\ UNCHANGED <<searchKind, searchRequest, inventory, search_products>>
    /\ UNCHANGED exceptSearch

\* `if ... request.product_subtype != "ALL": ... filter_by_product_subtype(...)`
SearchSubtype ==
    /\ spc = "subtype"
    /\ leveraged_products_data' =
            filter_by_product_subtype(leveraged_products_data,
                                      The(searchRequest).product_subtype)
    /\ spc' = "price"
    /\ UNCHANGED <<searchKind, searchRequest, inventory, search_products, leveraged_products>>
    /\ UNCHANGED exceptSearch

\* get_real_prices_batch prices some of the products; only those go into the
\* response
SearchPrice ==
    /\ spc = "price"
    /\ \E real_prices \in SUBSET {leveraged_products_data[i].id :
                                      i \in DOMAIN leveraged_products_data} :
        leveraged_products' =
            Some(SelectSeq(leveraged_products_data, LAMBDA q : q.id \in real_prices))
    /\ spc' = "done"
    /\ UNCHANGED <<searchKind, searchRequest, inventory, search_products,
                   leveraged_products_data>>
    /\ UNCHANGED exceptSearch

\* the caller has the answer; the search's locals are gone
FinishSearch ==
    /\ spc \in {"done", "failed"}
    /\ spc' = "idle"
    /\ searchKind' = "endpoint"
    /\ searchRequest' = None
    /\ inventory' = <<>>
    /\ search_products' = <<>>
    /\ leveraged_products_data' = <<>>
    /\ leveraged_products' = None
    /\ UNCHANGED exceptSearch

InitSearchSpec == InitOrder

StartAnySearch ==
    /\ spc = "idle"
    /\ \E kind \in {"endpoint", "dynamic"}, req \in SearchRequests, inv \in Inventories :
        /\ kind = "dynamic" => req.product_subtype = "ALL"
        /\ StartSearch(kind, req, inv)

NextSearch ==
    \/ StartAnySearch
    \/ SearchFetch
    \/ SearchFilter
    \/ SearchSubtype
    \/ SearchPrice
    \/ FinishSearch

SpecSearch == InitSearchSpec /\ [][NextSearch]_vars

\* ------------------------------------------ claims on the search
\* the 3.2L / 4.4L / 4.4S / 6.0L inventory asked for [4.0, 5.0] LONG
ScenarioInventory == <<ById(1), ById(2), ById(3), ById(4)>>
IsScenario ==
    /\ inventory = ScenarioInventory
    /\ searchRequest # None
    /\ The(searchRequest).action = "LONG"
    /\ The(searchRequest).min_leverage = 40
    /\ The(searchRequest).max_leverage = 50
    /\ The(searchRequest).product_subtype = "ALL"

\* C12: every product of a search's answer has its leverage inside the
\* requested range, the requested direction and is tradable; the scenario's
\* filter result is exactly the 4.4L product.
C12_FilterSound ==
    /\ leveraged_products # None =>
        \A i \in DOMAIN The(leveraged_products) :
            LET q == The(leveraged_products)[i]
                req == The(searchRequest)
            IN  /\ req.min_leverage <= q.leverage
                /\ q.leverage <= req.max_leverage
                /\ req.action \in {"LONG", "long"} => q.shortlong = "L"
                /\ req.action = "SHORT" => q.shortlong = "S"
                /\ q.tradable
    /\ (IsScenario /\ spc \in {"subtype", "price", "done"} /\ search_products # <<>>)
            => leveraged_products_data = <<ById(2)>>

\* C12's case: the scenario answered with the 4.4L product
C12_Witness ==
    /\ IsScenario
    /\ spc = "done"
    /\ leveraged_products = Some(<<ById(2)>>)

\* every predicate the request asks for
MatchesAll(q, req) ==
    /\ req.min_leverage <= q.leverage
    /\ q.leverage <= req.max_leverage
    /\ q.shortlong = (IF req.action \in {"LONG", "long"} THEN "L" ELSE "S")
    /\ q.tradable
    /\ req.product_subtype # "ALL" => SubtypeMatches(q, req.product_subtype)

\* C13: when the filters leave fewer than `limit` products, every product of
\* the inventory that satisfies all requested predicates is among them.
C13_NoShortfallWhileMatchesRemain ==
    (/\ spc \in {"price", "done"}
     /\ search_products # <<>>
     /\ Len(leveraged_products_data) < The(searchRequest).limit)
        => \A i \in DOMAIN inventory :
              MatchesAll(inventory[i], The(searchRequest))
                  => \E j \in DOMAIN leveraged_products_data :
                        leveraged_products_data[j] = inventory[i]

\* ------------------------------------------------- pricing functions
\* longest list of product ids one batch asks prices for
MaxBatch == 2

\* product ids as the callers pass them (strings), and the quote feed id
\* (vwdId) the metadata holds for a product that has one
PricedIds == {"331868", "4711"}
PriceProductIds == PricedIds \cup {"abc"}
VwdOf(product_id) == IF product_id = "331868" THEN "X1" ELSE "X2"
Feeds == {VwdOf(product_id) : product_id \in PricedIds}
PriceFields == {"LastPrice", "BidPrice", "AskPrice"}

\* the value a feed carries for a field, in thousandths
WireValue(feed, field) ==
    (IF feed = "X1" THEN 101000 ELSE 7000)
        + (CASE field = "LastPrice" -> 254 [] field = "BidPrice" -> 1 [] OTHER -> 509)

\* a row of the decoded frame: one feed, each field a value or NaN (None)
Rows ==
    {[feed |-> f,
      LastPrice |-> IF "LastPrice" \in has THEN Some(WireValue(f, "LastPrice")) ELSE None,
      BidPrice |-> IF "BidPrice" \in has THEN Some(WireValue(f, "BidPrice")) ELSE None,
      AskPrice |-> IF "AskPrice" \in has THEN Some(WireValue(f, "AskPrice")) ELSE None] :
        f \in Feeds, has \in SUBSET PriceFields}
\* the decoded frames: at most one row per feed, in any order
Frames ==
    {fr \in UNION {[1..k -> Rows] : k \in 0..Cardinality(Feeds)} :
        \A i \in DOMAIN fr : \A j \in DOMAIN fr : fr[i].feed = fr[j].feed => i = j}

\* product_info['data'] per product id: no entry, an entry without vwdId, or
\* an entry with the product's vwdId
Metas == [PricedIds -> {"absent", "no vwd", "vwd"}]
AllVwd == [product_id \in PricedIds |-> "vwd"]

PriceEnv(config, connection, info, meta, session_id, ticker, rows) ==
    [config |-> config, connection |-> connection, info |-> info, meta |-> meta,
     session_id |-> session_id, ticker |-> ticker, rows |-> rows]
\* the environments: one stage fails, or every stage answers
PriceEnvs ==
    {PriceEnv(c, "ok", "data", AllVwd, TRUE, "frame", <<>>) : c \in {"unreadable", "no token"}}
    \cup {PriceEnv("ok", "raise", "data", AllVwd, TRUE, "frame", <<>>)}
    \cup {PriceEnv("ok", "ok", i, AllVwd, TRUE, "frame", <<>>) : i \in {"raise", "malformed"}}
    \cup {PriceEnv("ok", "ok", "data", m, FALSE, "frame", <<>>) : m \in Metas}
    \cup {PriceEnv("ok", "ok", "data", AllVwd, TRUE, t, <<>>) : t \in {"raise", "none"}}
    \cup {PriceEnv("ok", "ok", "data", m, TRUE, "frame", fr) : m \in Metas, fr \in Frames}

\* round(x, 2) on thousandths (no value of the model lies on a tie)
Round2(v) == ((v + 5) \div 10) * 10
RoundOpt(x) == IF x = None THEN None ELSE Some(Round2(The(x)))

\* a PriceInfo that estimates a missing bid and ask from the last price
PriceInfoEstimating(row) ==
    [bid |-> IF row.BidPrice = None THEN RoundOpt(row.LastPrice) ELSE RoundOpt(row.BidPrice),
     ask |-> IF row.AskPrice = None THEN RoundOpt(row.LastPrice) ELSE RoundOpt(row.AskPrice),
     last |-> RoundOpt(row.LastPrice)]
\* PriceInfo(bid=round(bid, 2) if bid is not None else None, ...)
PriceInfo(row) ==
    [bid |-> RoundOpt(row.BidPrice), ask |-> RoundOpt(row.AskPrice),
     last |-> RoundOpt(row.LastPrice)]

PriceReturn(v) == [type |-> "return", value |-> v]
PriceRaise(e) == [type |-> "raise", value |-> e]
EmptyDict == <<>>
DictSet(d, k, v) == [x \in DOMAIN d \cup {k} |-> IF x = k THEN v ELSE d[x]]

\* a list of the ids that keeps every id the metadata knows, feed or not
ValidIgnoringFeed(ids, meta) ==
    SelectSeq(ids, LAMBDA product_id : meta[product_id] # "absent")
\* valid_product_ids: the ids whose metadata entry has a vwdId
valid_product_ids(ids, meta) ==
    SelectSeq(ids, LAMBDA product_id : meta[product_id] = "vwd")

\* the `for index, row in pandas_df.iterrows()` loop
RECURSIVE ExtractPrices(_, _, _, _)
ExtractPrices(rows, i, valid, results) ==
    IF i > Len(rows) THEN results
    ELSE IF rows[i].LastPrice = None THEN ExtractPrices(rows, i + 1, valid, results)
    ELSE LET product_id == IF Len(rows) = Len(valid) THEN valid[i] ELSE valid[1]
         IN  ExtractPrices(rows, i + 1, valid, DictSet(results, product_id, PriceInfo(rows[i])))

\* a metadata lookup whose failure is raised
OnMetadataFailureRaising == PriceRaise(HTTP503)
\* `except Exception` around get_products_info, and the malformed answer
OnMetadataFailure == PriceReturn(EmptyDict)

get_real_prices_batch(ids, env) ==
    IF env.config # "ok" THEN PriceRaise(HTTP503)
    ELSE IF env.connection = "raise" THEN PriceRaise(HTTP500)
    ELSE IF \E i \in DOMAIN ids : ~IsIntLiteral(ids[i]) THEN PriceReturn(EmptyDict)
    ELSE IF env.info \in {"raise", "malformed"} THEN OnMetadataFailure
    ELSE LET valid == valid_product_ids(ids, env.meta) IN
         IF valid = <<>> THEN PriceReturn(EmptyDict)
         ELSE IF ~env.session_id THEN PriceRaise(HTTP503)
         ELSE IF env.ticker \in {"raise", "none"} \/ env.rows = <<>> THEN PriceReturn(EmptyDict)
         ELSE PriceReturn(ExtractPrices(env.rows, 1, valid, EmptyDict))

get_real_price(product_id, env) ==
    IF env.connection = "raise" THEN PriceRaise(HTTP500)
    ELSE IF ~IsIntLiteral(product_id) \/ env.info \in {"raise", "malformed"}
         THEN PriceRaise(HTTP503)
    ELSE IF env.meta[product_id] = "absent" THEN PriceRaise(HTTP404)
    ELSE IF env.meta[product_id] = "no vwd" \/ env.config # "ok" \/ ~env.session_id
            \/ env.ticker \in {"raise", "none"} \/ env.rows = <<>>
         THEN PriceRaise(HTTP503)
    ELSE IF env.rows[1].LastPrice = None THEN PriceRaise(HTTP503)
    ELSE PriceReturn(PriceInfo(env.rows[1]))

\* the feeds a call subscribes to: only their rows can be in the frame
Subscribed(ids, env) ==
    {VwdOf(ids[i]) : i \in {j \in DOMAIN ids : IsIntLiteral(ids[j]) /\ env.meta[ids[j]] = "vwd"}}
BatchLists ==
    {ids \in UNION {[1..k -> PriceProductIds] : k \in 0..MaxBatch} :
        \A i \in DOMAIN ids : \A j \in DOMAIN ids : ids[i] = ids[j] => i = j}

CallPrices(fn, ids, env) ==
    /\ prc = "idle"
    /\ \A i \in DOMAIN env.rows : env.rows[i].feed \in Subscribed(ids, env)
    /\ price_call' = Some([fn |-> fn, product_ids |-> ids])
    /\ price_env' = Some(env)
    /\ price_result' = None
    /\ prc' = "called"
    /\ UNCHANGED exceptPrice

CallPricesBatch ==
    /\ prc = "idle"
    /\ \E ids \in BatchLists, env \in PriceEnvs : CallPrices("get_real_prices_batch", ids, env)

CallPriceSingle ==
    /\ prc = "idle"
    /\ \E product_id \in PriceProductIds, env \in PriceEnvs :
        CallPrices("get_real_price", <<product_id>>, env)

RunPricesBatch ==
    /\ prc = "called"
    /\ The(price_call).fn = "get_real_prices_batch"
    /\ price_result' = Some(get_real_prices_batch(The(price_call).product_ids, The(price_env)))
    /\ prc' = "returned"
    /\ UNCHANGED <<price_call, price_env>>
    /\ UNCHANGED exceptPrice

RunPriceSingle ==
    /\ prc = "called"
    /\ The(price_call).fn = "get_real_price"
    /\ price_result' = Some(get_real_price(The(price_call).product_ids[1], The(price_env)))
    /\ prc' = "returned"
    /\ UNCHANGED <<price_call, price_env>>
    /\ UNCHANGED exceptPrice

\* the caller has the result
FinishPrices ==
    /\ prc = "returned"
    /\ prc' = "idle"
    /\ price_call' = None
    /\ price_env' = None
    /\ price_result' = None
    /\ UNCHANGED exceptPrice

InitPrices == InitOrder

NextPrices ==
    \/ CallPricesBatch
    \/ CallPriceSingle
    \/ RunPricesBatch
    \/ RunPriceSingle
    \/ FinishPrices

SpecPrices == InitPrices /\ [][NextPrices]_vars

\* ------------------------------------------ claims on the pricing
BatchReturned ==
    /\ prc = "returned"
    /\ The(price_call).fn = "get_real_prices_batch"
    /\ The(price_result).type = "return"
\* the requested ids for which the metadata lookup gave a feed id
ResolvedIds ==
    {product_id \in PricedIds :
        /\ \E i \in DOMAIN The(price_call).product_ids :
                The(price_call).product_ids[i] = product_id
        /\ The(price_env).info = "data"
        /\ The(price_env).meta[product_id] = "vwd"}

\* C14: every key of the map get_real_prices_batch returns is a requested id
\* whose metadata holds a feed id.
C14_KeysWithinResolvedFeeds ==
    BatchReturned => DOMAIN The(price_result).value \subseteq ResolvedIds

\* C14's case: two ids are asked, one has no feed id, and a price comes back
C14_Witness ==
    /\ BatchReturned
    /\ DOMAIN The(price_result).value # {}
    /\ \E i \in DOMAIN The(price_call).product_ids :
            The(price_call).product_ids[i] \notin ResolvedIds

\* C15: the PriceInfo stored under a product id is the one of the row of that
\* product's own feed.
C15_CorrelatedByFeed ==
    BatchReturned =>
        \A product_id \in DOMAIN The(price_result).value :
            \E i \in DOMAIN The(price_env).rows :
                /\ The(price_env).rows[i].feed = VwdOf(product_id)
                /\ The(price_result).value[product_id] = PriceInfo(The(price_env).rows[i])

\* the PriceInfos a finished pricing call delivered
Delivered ==
    IF prc # "returned" \/ The(price_result).type # "return" THEN {}
    ELSE IF The(price_call).fn = "get_real_price" THEN {The(price_result).value}
    ELSE {The(price_result).value[k] : k \in DOMAIN The(price_result).value}
\* info takes each of its fields from this row's wire value of the same
\* field, and has nothing where the row has nothing
DecodedFrom(info, row) ==
    /\ info.last = (IF row.LastPrice = None THEN None
                    ELSE Some(Round2(WireValue(row.feed, "LastPrice"))))
    /\ info.bid = (IF row.BidPrice = None THEN None
                   ELSE Some(Round2(WireValue(row.feed, "BidPrice"))))
    /\ info.ask = (IF row.AskPrice = None THEN None
                   ELSE Some(Round2(WireValue(row.feed, "AskPrice"))))

\* C16: every PriceInfo a pricing function delivers has bid, ask and last
\* from a decoded row's own wire values; a field the row lacks is None.
C16_NoFabrication ==
    \A info \in Delivered :
        \E i \in DOMAIN The(price_env).rows : DecodedFrom(info, The(price_env).rows[i])

\* C16's case: the frame supplied only LastPrice and the PriceInfo has a
\* last price but neither bid nor ask
C16_Witness ==
    /\ \E info \in Delivered : info.last # None /\ info.bid = None /\ info.ask = None
    /\ \A i \in DOMAIN The(price_env).rows :
            /\ The(price_env).rows[i].BidPrice = None
            /\ The(price_env).rows[i].AskPrice = None

MetadataCallFailed ==
    /\ prc = "returned"
    /\ The(price_call).fn = "get_real_prices_batch"
    /\ The(price_env).config = "ok"
    /\ The(price_env).connection = "ok"
    /\ The(price_env).info \in {"raise", "malformed"}

\* C20: when get_products_info raises or answers something malformed,
\* get_real_prices_batch returns the empty map and raises nothing.
C20_MetadataFailureGivesEmptyMap ==
    MetadataCallFailed => The(price_result) = PriceReturn(EmptyDict)

\* C20's case: the lookup raised for a batch of two ids
C20_Witness ==
    /\ MetadataCallFailed
    /\ The(price_env).info = "raise"
    /\ Len(The(price_call).product_ids) = 2
    /\ \A i \in DOMAIN The(price_call).product_ids :
            IsIntLiteral(The(price_call).product_ids[i])

\* ------------------------------------- decoding of the volume frame
\* most records one frame of the model holds
MaxFrame == 4

\* the feed get_volume_data asks for
vwd_id == "X1"
\* The records of a frame. a_req registers a field of a feed under a field
\* id; un / us carry the value of a field id (a number in tenths / a string).
AReq(feed, field, id) == [m |-> "a_req", feed |-> feed, field |-> field, id |-> id, v |-> 0]
Un(id, v) == [m |-> "un", feed |-> "", field |-> "", id |-> id, v |-> v]
Us(id) == [m |-> "us", feed |-> "", field |-> "", id |-> id, v |-> -1]
Records ==
    {AReq("X1", f, i) : f \in {"CumulativeVolume", "LastVolume"}, i \in {7, 8}}
    \cup {AReq("X2", "CumulativeVolume", 8), AReq("X10", "CumulativeVolume", 7)}
    \cup {Un(7, 10005), Un(8, 2500)}
    \cup {Us(8)}
WireFrames == UNION {[1..k -> Records] : k \in 0..MaxFrame}

\* The composite name of an a_req record is "<feed>.<field>"; the feed ids are
\* spelled out letter by letter, the field name is kept whole.
FeedText(feed) ==
    CASE feed = "X1" -> <<"X", "1">>
      [] feed = "X2" -> <<"X", "2">>
      [] feed = "X10" -> <<"X", "1", "0">>
CompositeName(item) == FeedText(item.feed) \o <<".", item.field>>
\* str.startswith
StartsWith(s, prefix) == Len(prefix) <= Len(s) /\ SubSeq(s, 1, Len(prefix)) = prefix
\* `field_name.split('.')[-1]`
LastPart(name) == name[Len(name)]

\* `un` carries a JSON number, `us` a string that is no number here
IsNumber(v) == v >= 0
\* int(value) of a JSON number: the value in tenths, truncated
IntTrunc(v) == v \div 10

\* field_map and values are dicts; field_map is iterated in insertion order,
\* so it is kept as the sequence of its (field_id, field_name) items
MapSet(field_map, id, name) ==
    IF \E i \in DOMAIN field_map : field_map[i].id = id
    THEN [i \in DOMAIN field_map |->
            IF field_map[i].id = id THEN [id |-> id, name |-> name] ELSE field_map[i]]
    ELSE Append(field_map, [id |-> id, name |-> name])

\* a value is kept only when its field id is registered already
OnValueIfRegistered(field_map, values, item) ==
    IF \E i \in DOMAIN field_map : field_map[i].id = item.id
    THEN DictSet(values, item.id, item.v) ELSE values
\* `values[field_id] = value`
OnValue(field_map, values, item) == DictSet(values, item.id, item.v)

\* `for item in parsed_data:` gives the two dicts
RECURSIVE ReadRecords(_, _, _)
ReadRecords(items, field_map, values) ==
    IF items = <<>> THEN [field_map |-> field_map, values |-> values]
    ELSE LET item == Head(items) IN
         IF item.m = "a_req"
         THEN ReadRecords(Tail(items),
                          IF StartsWith(CompositeName(item), FeedText(vwd_id))
                          THEN MapSet(field_map, item.id, LastPart(CompositeName(item)))
                          ELSE field_map,
                          values)
         ELSE ReadRecords(Tail(items), field_map, OnValue(field_map, values, item))

\* `for field_id, field_name in field_map.items():` picks the two volumes;
\* a volume is "ValueError" when int() of its value raises
RECURSIVE Extract(_, _, _, _)
Extract(field_map, values, cumulative_volume, last_volume) ==
    IF field_map = <<>>
    THEN [cumulative_volume |-> cumulative_volume, last_volume |-> last_volume, error |-> FALSE]
    ELSE LET item == Head(field_map) IN
         IF item.id \in DOMAIN values /\ item.name \in {"CumulativeVolume", "LastVolume"}
         THEN IF ~IsNumber(values[item.id])
              THEN [cumulative_volume |-> cumulative_volume, last_volume |-> last_volume,
                    error |-> TRUE]
              ELSE IF item.name = "CumulativeVolume"
              THEN Extract(Tail(field_map), values, IntTrunc(values[item.id]), last_volume)
              ELSE Extract(Tail(field_map), values, cumulative_volume,
                           IntTrunc(values[item.id]))
         ELSE Extract(Tail(field_map), values, cumulative_volume, last_volume)

Volumes(cumulative_volume, last_volume) ==
    [type |-> "volumes", cumulative_volume |-> Some(cumulative_volume),
     last_volume |-> Some(last_volume)]
VolumeError == [type |-> "raise", cumulative_volume |-> None, last_volume |-> None]

\* the parsing block of get_volume_data: both volumes start at 0, and
\* HTTPException(503) is raised when both are 0 at the end or int() failed
DecodeVolumes(items) ==
    LET dicts == ReadRecords(items, <<>>, EmptyDict)
        got == Extract(dicts.field_map, dicts.values, 0, 0)
    IN  IF got.error \/ (got.cumulative_volume = 0 /\ got.last_volume = 0)
        THEN VolumeError
        ELSE Volumes(got.cumulative_volume, got.last_volume)

\* a frame has been fetched
ReceiveFrame ==
    /\ wpc = "idle"
    /\ \E items \in WireFrames :
        /\ frame' = items
        /\ volume_result' = None
        /\ wpc' = "fetched"
    /\ UNCHANGED exceptWire

DecodeFrame ==
    /\ wpc = "fetched"
    /\ volume_result' = Some(DecodeVolumes(frame))
    /\ wpc' = "decoded"
    /\ UNCHANGED frame
    /\ UNCHANGED exceptWire

\* get_volume_data goes on with the volumes (or has raised)
FinishFrame ==
    /\ wpc = "decoded"
    /\ wpc' = "idle"
    /\ frame' = <<>>
    /\ volume_result' = None
    /\ UNCHANGED exceptWire

InitWireSpec == InitOrder

NextWire ==
    \/ ReceiveFrame
    \/ DecodeFrame
    \/ FinishFrame

SpecWire == InitWireSpec /\ [][NextWire]_vars

\* ------------------------------------------ claims on the decoding
IsReg(item) == item.m = "a_req"
IsValue(item) == item.m # "a_req"
\* the frame with every registration moved in front of every value
RegistrationsFirst(items) == SelectSeq(items, IsReg) \o SelectSeq(items, IsValue)

\* C17: a frame decodes to what it decodes to with its registrations moved in
\* front of its values; so all frames that differ only in where the a_req
\* records stand among the un/us records decode alike.
C17_OrderIndependent ==
    wpc = "decoded" => The(volume_result) = DecodeVolumes(RegistrationsFirst(frame))

\* C17's case: a value arrives before its field id is registered and is
\* decoded under the field's name
C17_Witness ==
    /\ wpc = "decoded"
    /\ frame = <<Un(7, 10005), AReq("X1", "CumulativeVolume", 7)>>
    /\ The(volume_result) = Volumes(1000, 0)

\* C18: a frame without any registration for the requested feed does not end
\* the decoding in an error.
C18_NoRegistrationIsNoError ==
    (wpc = "decoded" /\ \A i \in DOMAIN frame : ~(IsReg(frame[i]) /\ frame[i].feed = vwd_id))
        => The(volume_result).type # "raise"

\* the field id the frame registers for this field of the feed has no value
Registered(field) ==
    \E i \in DOMAIN frame : IsReg(frame[i]) /\ frame[i].feed = vwd_id /\ frame[i].field = field
ValueMissing(field) ==
    \A i \in DOMAIN frame :
        (IsReg(frame[i]) /\ frame[i].feed = vwd_id /\ frame[i].field = field)
            => \A j \in DOMAIN frame : IsValue(frame[j]) => frame[j].id # frame[i].id

\* C19: when both volumes are registered and the value of LastVolume never
\* arrives, the decoded result holds no number for LastVolume.
C19_MissingValueStaysEmpty ==
    (/\ wpc = "decoded"
     /\ The(volume_result).type = "volumes"
     /\ Registered("CumulativeVolume")
     /\ Registered("LastVolume")
     /\ ValueMissing("LastVolume"))
        => The(volume_result).last_volume = None

\* ------------------------------------------------ the underlying resolver
\* most candidates one search answer of the model holds
MaxCandidates == 3

\* Strings that are compared letter by letter are sequences of characters.
LowerChar(c) ==
    CASE c = "A" -> "a" [] c = "B" -> "b" [] c = "C" -> "c" [] c = "D" -> "d"
      [] c = "E" -> "e" [] c = "F" -> "f" [] c = "G" -> "g" [] c = "H" -> "h"
      [] c = "I" -> "i" [] c = "J" -> "j" [] c = "K" -> "k" [] c = "L" -> "l"
      [] c = "M" -> "m" [] c = "N" -> "n" [] c = "O" -> "o" [] c = "P" -> "p"
      [] c = "Q" -> "q" [] c = "R" -> "r" [] c = "S" -> "s" [] c = "T" -> "t"
      [] c = "U" -> "u" [] c = "V" -> "v" [] c = "W" -> "w" [] c = "X" -> "x"
      [] c = "Y" -> "y" [] c = "Z" -> "z" [] OTHER -> c
UpperChar(c) ==
    CASE c = "a" -> "A" [] c = "b" -> "B" [] c = "c" -> "C" [] c = "d" -> "D"
      [] c = "e" -> "E" [] c = "f" -> "F" [] c = "g" -> "G" [] c = "h" -> "H"
      [] c = "i" -> "I" [] c = "j" -> "J" [] c = "k" -> "K" [] c = "l" -> "L"
      [] c = "m" -> "M" [] c = "n" -> "N" [] c = "o" -> "O" [] c = "p" -> "P"
      [] c = "q" -> "Q" [] c = "r" -> "R" [] c = "s" -> "S" [] c = "t" -> "T"
      [] c = "u" -> "U" [] c = "v" -> "V" [] c = "w" -> "W" [] c = "x" -> "X"
      [] c = "y" -> "Y" [] c = "z" -> "Z" [] OTHER -> c
\* str.lower(), str.upper()
lower(s) == [i \in DOMAIN s |-> LowerChar(s[i])]
upper(s) == [i \in DOMAIN s |-> UpperChar(s[i])]
\* `sub in s`
In(sub, s) == \E i \in 0..(Len(s) - Len(sub)) : SubSeq(s, i + 1, i + Len(sub)) = sub

\* the products of a search answer
Candidate(id, isin, symbol, name) ==
    [id |-> id, isin |-> isin, symbol |-> symbol, name |-> name, vwdId |-> <<"V">> \o isin]
CandidatePool ==
    { Candidate(1, <<"I", "1">>, <<"Z", "Z">>, <<"Z", "e", "d">>),
      Candidate(2, <<"I", "2">>, <<"A", "B">>, <<"Z", "e", "d">>),
      Candidate(3, <<"I", "3">>, <<"Z", "Z">>, <<"C", "a", "b">>),
      Candidate(4, <<"I", "4">>, <<"A", "B", "X">>, <<"Z", "e", "d">>) }
CandidateLists ==
    {ps \in UNION {[1..k -> CandidatePool] : k \in 0..MaxCandidates} :
        \A i \in DOMAIN ps : \A j \in DOMAIN ps : ps[i] = ps[j] => i = j}
Queries == {<<"A", "B">>, <<"a", "b">>, <<"I", "1">>}
\* what api.product_search answers: a dict with products, a dict without the
\* 'products' key, or an exception
SearchAnswers ==
    {[kind |-> "products", products |-> ps] : ps \in CandidateLists}
    \cup {[kind |-> k, products |-> <<>>] : k \in {"no products key", "raise"}}

\* the tests of the strategies of search_stock_universal
StrategyMatches(strategy, product, query) ==
    CASE strategy = "isin" -> product.isin = query
      [] strategy = "symbol" -> product.symbol = upper(query)
      [] strategy = "name contains" -> In(lower(query), lower(product.name))
      [] strategy = "symbol contains" -> In(lower(query), lower(product.symbol))

\* `for product in products: if ...: return product`
FirstMatch(strategy, products, query) ==
    LET hits == {i \in DOMAIN products : StrategyMatches(strategy, products[i], query)}
    IN  IF hits = {} THEN None
        ELSE Some(products[CHOOSE i \in hits : \A j \in hits : i <= j])

\* the loops one after the other, then `return products[0]`
RECURSIVE TryStrategies(_, _, _)
TryStrategies(strategies, products, query) ==
    IF strategies = <<>> THEN Some(products[1])
    ELSE IF FirstMatch(Head(strategies), products, query) # None
    THEN FirstMatch(Head(strategies), products, query)
    ELSE TryStrategies(Tail(strategies), products, query)

\* search_stock_universal of the service: three loops and the fallback
ServiceStrategies == <<"isin", "symbol", "name contains">>
search_stock_universal(query, answer) ==
    IF answer.kind # "products" \/ answer.products = <<>> THEN None
    ELSE TryStrategies(ServiceStrategies, answer.products, query)

\* search_stock_universal of _tests/trading_api.py: four loops and the fallback
ScriptStrategies == <<"isin", "symbol", "name contains", "symbol contains">>
search_stock_universal_script(query, answer) ==
    IF answer.kind # "products" \/ answer.products = <<>> THEN None
    ELSE TryStrategies(ScriptStrategies, answer.products, query)

\* the dict search_underlying_stock builds from the product it found
UnderlyingInfo(product) ==
    [id |-> product.id, name |-> product.name, symbol |-> product.symbol,
     isin |-> product.isin, vwd_id |-> product.vwdId]
\* search_underlying_stock: one loop with the three tests or-ed, None after it
UnderlyingMatches(product, query) ==
    \/ In(upper(query), upper(product.name))
    \/ upper(query) = upper(product.symbol)
    \/ upper(query) = upper(product.isin)
search_underlying_stock(query, answer) ==
    IF answer.kind # "products" THEN None
    ELSE LET hits == {i \in DOMAIN answer.products :
                        UnderlyingMatches(answer.products[i], query)}
         IN  IF hits = {} THEN None
             ELSE Some(UnderlyingInfo(answer.products[CHOOSE i \in hits : \A j \in hits : i <= j]))

Resolvers == {"search_stock_universal", "search_stock_universal_script",
              "search_underlying_stock"}

\* a resolver is called
CallResolver ==
    /\ rpc = "idle"
    /\ \E fn \in Resolvers, query \in Queries, answer \in SearchAnswers :
        resolve_call' = Some([fn |-> fn, query |-> query, answer |-> answer])
    /\ resolve_result' = None
    /\ rpc' = "called"
    /\ UNCHANGED exceptResolve

RunResolver(fn, result) ==
    /\ rpc = "called"
    /\ The(resolve_call).fn = fn
    /\ resolve_result' = Some(result)
    /\ rpc' = "returned"
    /\ UNCHANGED resolve_call
    /\ UNCHANGED exceptResolve

RunUniversal ==
    /\ rpc = "called"
    /\ RunResolver("search_stock_universal",
                   search_stock_universal(The(resolve_call).query, The(resolve_call).answer))
RunUniversalScript ==
    /\ rpc = "called"
    /\ RunResolver("search_stock_universal_script",
                   search_stock_universal_script(The(resolve_call).query,
                                                 The(resolve_call).answer))
RunUnderlying ==
    /\ rpc = "called"
    /\ RunResolver("search_underlying_stock",
                   search_underlying_stock(The(resolve_call).query, The(resolve_call).answer))

\* the caller has the result
FinishResolver ==
    /\ rpc = "returned"
    /\ rpc' = "idle"
    /\ resolve_call' = None
    /\ resolve_result' = None
    /\ UNCHANGED exceptResolve

InitResolveSpec == InitOrder

NextResolve ==
    \/ CallResolver
    \/ RunUniversal
    \/ RunUniversalScript
    \/ RunUnderlying
    \/ FinishResolver

SpecResolve == InitResolveSpec /\ [][NextResolve]_vars

\* ------------------------------------------- claims on the resolver
\* the candidates of the returned call, and the id of what it returned
Candidates == The(resolve_call).answer.products
ResolvedId ==
    IF The(resolve_result) = None THEN None ELSE Some(The(The(resolve_result)).id)

\* the pick of the five strategies in their order
ClaimedPick(products, query) == TryStrategies(ScriptStrategies, products, query)

\* C21: when the search yields candidates, every resolver returns the pick of
\* the strategies ISIN equality, symbol equality, name contains the query,
\* symbol contains the query, first result, tried in this order, the earliest
\* candidate winning within a strategy.
C21_StrategyOrder ==
    (rpc = "returned" /\ Candidates # <<>>)
        => ResolvedId = Some(The(ClaimedPick(Candidates, The(resolve_call).query)).id)

\* C22: a resolver returns None when the search yields no candidate, and one
\* of the candidates whenever it yields at least one.
C22_NoneOnlyWithoutCandidates ==
    rpc = "returned"
        => IF Candidates = <<>> THEN The(resolve_result) = None
           ELSE /\ ResolvedId # None
                /\ \E i \in DOMAIN Candidates : Candidates[i].id = The(ResolvedId)

\* ------------------------------------------- filter_by_product_subtype
\* most products of one filter_by_product_subtype call of the model (the
\* test fixture's list of 7 is called in addition)
MaxProducts == 3

\* the names of the 7 products of test_subtype_filtering, of a Mini product
\* that has a call strike, and of a product no rule matches
ProductName(id) ==
    CASE id = 1 ->
        <<"B", "N", "P", " ", "A", "P", "P", "L", "E", " ", "C", "a", "l", "l", " ", "S", "T",
          "R", " ", "1", "4", "5", " ", "R", " ", "0", ".", "1", "0", "0", " ", "1", "8", "/",
          "0", "6", "/", "2", "0", "2", "6", " ", "L", "V", " ", "2", ".", "2", "6">>
      [] id = 2 ->
        <<"B", "N", "P", " ", "A", "P", "P", "L", "E", " ", "P", "u", "t", " ", "S", "T", "R",
          " ", "2", "2", " ", "R", " ", "0", ".", "1", "0", "0", " ", "1", "9", "/", "1", "2",
          "/", "2", "0", "2", "5", " ", "L", "V", " ", "6", ".", "2", "1">>
      [] id = 3 ->
        <<"B", "N", "P", " ", "A", "P", "P", "L", "E", " ", "M", "i", "n", "i", " ", "L", "o",
          "n", "g", " ", "S", "L", " ", "1", "0", ".", "5", "0", "5", "1", " ", "S", "T", "R",
          " ", "9", ".", "7", "7", "2", "2", " ", "R", " ", "0", ".", "1", "0", "0", " ", "L",
          "V", " ", "1", ".", "8", "9">>
      [] id = 4 ->
        <<"B", "N", "P", " ", "A", "P", "P", "L", "E", " ", "M", "i", "n", "i", " ", "S", "h",
          "o", "r", "t", " ", "S", "L", " ", "1", "1", ".", "0", "4", "2", "7", " ", "S", "T",
          "R", " ", "1", "0", ".", "5", "1", "6", "9", " ", "R", " ", "0", ".", "1", "0", "0",
          " ", "L", "V", " ", "2", ".", "0", "2">>
      [] id = 5 ->
        <<"B", "N", "P", " ", "A", "P", "P", "L", "E", " ", "U", "n", "l", "i", "m", "i", "t",
          "e", "d", " ", "L", "o", "n", "g", " ", "S", "L", " ", "1", "0", ".", "6", "4", "0",
          "0", " ", "S", "T", "R", " ", "1", "0", ".", "6", "4", "0", "0", " ", "R", " ", "0",
          ".", "1", "0", "0", " ", "L", "V", " ", "2", ".", "0", "2">>
      [] id = 6 ->
        <<"B", "N", "P", " ", "A", "P", "P", "L", "E", " ", "U", "n", "l", "i", "m", "i", "t",
          "e", "d", " ", "S", "h", "o", "r", "t", " ", "S", "L", " ", "1", "1", ".", "4", "3",
          "7", "1", " ", "S", "T", "R", " ", "1", "1", ".", "4", "3", "7", "1", " ", "R", " ",
          "0", ".", "1", "0", "0", " ", "L", "V", " ", "2", ".", "1", "9">>
      [] id = 7 ->
        <<"S", "G", " ", "A", "p", "p", "l", "e", " ", "S", "t", "a", "n", "d", "a", "r", "d",
          "-", "O", "p", "t", "i", "o", "n", "s", "s", "c", "h", "e", "i", "n", " ", "C", "a",
          "l", "l", " ", "S", "T", "R", " ", "1", "5", "0", " ", "L", "V", " ", "0", ".", "0",
          "1">>
      [] id = 8 ->
        <<"B", "N", "P", " ", "A", "P", "P", "L", "E", " ", "M", "i", "n", "i", " ", "C", "a",
          "l", "l", " ", "S", "T", "R", " ", "1", "2", "0">>
      [] id = 9 ->
        <<"B", "N", "P", " ", "A", "P", "P", "L", "E", " ", "U", "n", "l", "i", "m", "i", "t",
          "e", "d", " ", "T", "u", "r", "b", "o", " ", "L", "V", " ", "3", ".", "1", "0">>
FixtureIds == 1..7
NamedIds == 1..9

\* the phrases filter_by_product_subtype looks for
MarkerText(m) ==
    CASE m = "call str" ->
        <<"c", "a", "l", "l", " ", "s", "t", "r">>
      [] m = "put str" ->
        <<"p", "u", "t", " ", "s", "t", "r">>
      [] m = "mini" ->
        <<"m", "i", "n", "i">>
      [] m = "unlimited" ->
        <<"u", "n", "l", "i", "m", "i", "t", "e", "d">>
      [] m = "mini long" ->
        <<"m", "i", "n", "i", " ", "l", "o", "n", "g">>
      [] m = "mini short" ->
        <<"m", "i", "n", "i", " ", "s", "h", "o", "r", "t">>
      [] m = "unlimited long" ->
        <<"u", "n", "l", "i", "m", "i", "t", "e", "d", " ", "l", "o", "n", "g">>
      [] m = "unlimited short" ->
        <<"u", "n", "l", "i", "m", "i", "t", "e", "d", " ", "s", "h", "o", "r", "t">>
Markers ==
    {"call str", "put str", "mini", "unlimited",
     "mini long", "mini short", "unlimited long", "unlimited short"}

\* `name = product.get('name', '').lower()` and the `in` tests on it: the
\* phrases the lower-cased name contains
NameMarkers(text) == {m \in Markers : In(MarkerText(m), lower(text))}
NamedProduct(id) == [id |-> id, text |-> ProductName(id), name |-> NameMarkers(ProductName(id))]

Fixture == [i \in FixtureIds |-> NamedProduct(i)]
ProductLists ==
    {ps \in UNION {[1..k -> {NamedProduct(i) : i \in NamedIds}] : k \in 0..MaxProducts} :
        \A i \in DOMAIN ps : \A j \in DOMAIN ps : ps[i] = ps[j] => i = j}
    \cup {Fixture}
Subtypes == {"ALL", "CALL_PUT", "MINI", "UNLIMITED"}

CallSubtypeFilter ==
    /\ fpc = "idle"
    /\ \E ps \in ProductLists, subtype \in Subtypes :
        subtype_call' = Some([products |-> ps, subtype |-> subtype])
    /\ subtype_result' = None
    /\ fpc' = "called"
    /\ UNCHANGED exceptSubtype

RunSubtypeFilter ==
    /\ fpc = "called"
    /\ subtype_result' = Some(filter_by_product_subtype(The(subtype_call).products,
                                                        The(subtype_call).subtype))
    /\ fpc' = "returned"
    /\ UNCHANGED subtype_call
    /\ UNCHANGED exceptSubtype

FinishSubtypeFilter ==
    /\ fpc = "returned"
    /\ fpc' = "idle"
    /\ subtype_call' = None
    /\ subtype_result' = None
    /\ UNCHANGED exceptSubtype

InitSubtypeSpec == InitOrder

NextSubtype ==
    \/ CallSubtypeFilter
    \/ RunSubtypeFilter
    \/ FinishSubtypeFilter

SpecSubtype == InitSubtypeSpec /\ [][NextSubtype]_vars

\* ------------------------------------ claims on the subtype filter
\* the lower-cased name holds the phrase
Holds(q, m) == In(MarkerText(m), lower(q.text))
\* the rules of the subtypes, on the names
RuleOf(subtype, q) ==
    CASE subtype = "CALL_PUT" ->
            /\ Holds(q, "call str") \/ Holds(q, "put str")
            /\ ~Holds(q, "mini")
            /\ ~Holds(q, "unlimited")
      [] subtype = "MINI" -> Holds(q, "mini long") \/ Holds(q, "mini short")
      [] subtype = "UNLIMITED" -> Holds(q, "unlimited long") \/ Holds(q, "unlimited short")
      [] subtype = "ALL" -> TRUE
KeptByRule(ps, subtype) == SelectSeq(ps, LAMBDA q : RuleOf(subtype, q))
FixtureCount(subtype) ==
    CASE subtype = "ALL" -> 7 [] subtype = "CALL_PUT" -> 3 [] subtype = "MINI" -> 2
      [] subtype = "UNLIMITED" -> 2

\* C23: filter_by_product_subtype returns exactly the products whose
\* lower-cased name satisfies the subtype's rule, in input order (all of them
\* for ALL); on the fixture of 7 products it returns 7 / 3 / 2 / 2.
C23_SubtypeRules ==
    fpc = "returned"
        => /\ The(subtype_result) = KeptByRule(The(subtype_call).products,
                                                The(subtype_call).subtype)
           /\ The(subtype_call).products = Fixture
                => Len(The(subtype_result)) = FixtureCount(The(subtype_call).subtype)

\* C23's case: CALL_PUT on the fixture keeps the two BNP options and the
\* Optionsschein
C23_Witness ==
    /\ fpc = "returned"
    /\ The(subtype_call) = [products |-> Fixture, subtype |-> "CALL_PUT"]
    /\ The(subtype_result) = <<NamedProduct(1), NamedProduct(2), NamedProduct(7)>>

\* ------------------------------------------------ quantity sizing alone
\* largest price and amount (in cents) of the calls, next to the scenario's
MaxCents == 8

\* prices and amounts of the calls: every small pair, and 250.00 at 48.30
QuantityCalls ==
    [price : 0..MaxCents, order_amount : (-MaxCents)..MaxCents]
    \cup {[price |-> 4830, order_amount |-> a] : a \in {2000, 25000}}

CallQuantity ==
    /\ qpc = "idle"
    /\ \E c \in QuantityCalls : quantity_call' = Some(c)
    /\ quantity_result' = None
    /\ qpc' = "called"
    /\ UNCHANGED exceptQuantity

RunQuantity ==
    /\ qpc = "called"
    /\ quantity_result' = Some(calculate_order_quantity(The(quantity_call).price,
                                                        The(quantity_call).order_amount))
    /\ qpc' = "returned"
    /\ UNCHANGED quantity_call
    /\ UNCHANGED exceptQuantity

FinishQuantity ==
    /\ qpc = "returned"
    /\ qpc' = "idle"
    /\ quantity_call' = None
    /\ quantity_result' = None
    /\ UNCHANGED exceptQuantity

InitQuantitySpec == InitOrder

NextQuantity ==
    \/ CallQuantity
    \/ RunQuantity
    \/ FinishQuantity

SpecQuantity == InitQuantitySpec /\ [][NextQuantity]_vars

\* ---------------------------------------- claims on the quantity sizing
\* floor(a / b) for b > 0, as the greatest integer n with n * b <= a
Floor(a, b) ==
    LET m == IF a >= 0 THEN a + 1 ELSE 1 - a
    IN  CHOOSE n \in (-m)..m : n * b <= a /\ a < (n + 1) * b

\* C24: for a positive reference price the quantity is
\* max(1, floor(amount / price)): the floor when the floor is at least 1,
\* else 1, and never 0; 250.00 at 48.30 gives 5.
C24_QuantityIsClampedFloor ==
    (qpc = "returned" /\ The(quantity_call).price > 0)
        => LET price == The(quantity_call).price
               amount == The(quantity_call).order_amount
               quantity == The(quantity_result)
           IN  /\ Floor(amount, price) >= 1 => quantity = Floor(amount, price)
               /\ Floor(amount, price) < 1 => quantity = 1
               /\ quantity # 0
               /\ (amount = 25000 /\ price = 4830) => quantity = 5

\* C24's cases: an amount below the price is sized to 1, and the scenario to 5
C24_Witness ==
    /\ qpc = "returned"
    /\ \/ The(quantity_call) = [price |-> 7, order_amount |-> 3] /\ The(quantity_result) = 1
       \/ The(quantity_call) = [price |-> 4830, order_amount |-> 25000]
          /\ The(quantity_result) = 5

\* --------------------------------- ranking of the leveraged matches
\* most matches one ranking of the model sorts
MaxRanked == 3

\* leverages (in tenths) of the matches: the loop before the sort keeps only
\* tradable long products with a leverage from 2.0 to 15.0
RankLeverages == {20, 35, 40, 45, 50, 60, 80}
TargetLeverages == {20, 30, 45}
Matches == {[id |-> l, leverage |-> l] : l \in RankLeverages}
MatchLists ==
    {ps \in UNION {[1..k -> Matches] : k \in 1..MaxRanked} :
        \A i \in DOMAIN ps : \A j \in DOMAIN ps : ps[i] = ps[j] => i = j}

Abs(x) == IF x >= 0 THEN x ELSE -x
\* leverage_priority(product): the tier, then the distance to the target
leverage_priority(product, target_leverage) ==
    LET lev == product.leverage
        tier == IF 40 <= lev /\ lev <= 50 THEN 0
                ELSE IF 30 <= lev /\ lev < 40 THEN 1
                ELSE IF 50 < lev /\ lev <= 70 THEN 2
                ELSE 3
    IN  <<tier, Abs(lev - target_leverage)>>
\* the order of Python on tuples of two numbers
KeyLess(a, b) == a[1] < b[1] \/ (a[1] = b[1] /\ a[2] < b[2])

\* list.sort(key=leverage_priority): a stable sort, here by insertion
RECURSIVE InsertByKey(_, _, _)
InsertByKey(sorted, product, target_leverage) ==
    IF sorted = <<>> THEN <<product>>
    ELSE IF KeyLess(leverage_priority(product, target_leverage),
                    leverage_priority(Head(sorted), target_leverage))
    THEN <<product>> \o sorted
    ELSE <<Head(sorted)>> \o InsertByKey(Tail(sorted), product, target_leverage)
RECURSIVE SortByPriority(_, _)
SortByPriority(products, target_leverage) ==
    IF products = <<>> THEN <<>>
    ELSE InsertByKey(SortByPriority(SubSeq(products, 1, Len(products) - 1), target_leverage),
                     products[Len(products)], target_leverage)

\* search_leveraged_products has collected its matches
CallRanking ==
    /\ kpc = "idle"
    /\ \E ps \in MatchLists, target \in TargetLeverages :
        rank_call' = Some([leveraged_products |-> ps, target_leverage |-> target])
    /\ ranked' = None
    /\ kpc' = "collected"
    /\ UNCHANGED exceptRank

\* `leveraged_products.sort(key=leverage_priority)`
SortMatches ==
    /\ kpc = "collected"
    /\ ranked' = Some(SortByPriority(The(rank_call).leveraged_products,
                                     The(rank_call).target_leverage))
    /\ kpc' = "sorted"
    /\ UNCHANGED rank_call
    /\ UNCHANGED exceptRank

\* the caller takes `leveraged_products[0]`
FinishRanking ==
    /\ kpc = "sorted"
    /\ kpc' = "idle"
    /\ rank_call' = None
    /\ ranked' = None
    /\ UNCHANGED exceptRank

InitRankSpec == InitOrder

NextRank ==
    \/ CallRanking
    \/ SortMatches
    \/ FinishRanking

SpecRank == InitRankSpec /\ [][NextRank]_vars

\* ------------------------------------------- claims on the ranking
\* the tiers relative to the target: within half a point of it, up to one
\* and a half points below, up to two and a half points above, the rest
TierAround(lev, target) ==
    IF target - 5 <= lev /\ lev <= target + 5 THEN 0
    ELSE IF target - 15 <= lev /\ lev < target - 5 THEN 1
    ELSE IF target + 5 < lev /\ lev <= target + 25 THEN 2
    ELSE 3
ClaimedKey(product, target) ==
    <<TierAround(product.leverage, target), Abs(product.leverage - target)>>

\* C25: for every target the ranked list is ordered by the tier relative to
\* the target and, within a tier, by the distance to the target; its first
\* element has the smallest (tier, distance) pair of all matches.
C25_RankedAroundTarget ==
    kpc = "sorted"
        => LET list == The(ranked)
               target == The(rank_call).target_leverage
           IN  /\ \A i \in DOMAIN list : \A j \in DOMAIN list :
                    i < j => ~KeyLess(ClaimedKey(list[j], target), ClaimedKey(list[i], target))
               /\ \A i \in DOMAIN list :
                    ~KeyLess(ClaimedKey(list[i], target), ClaimedKey(list[1], target))

\* ---------------------------------------------- search_stocks_multiple
\* `max_retries = 3`
max_retries == 3

\* what api.product_search answers to one attempt
StockAnswers == {"products", "empty", "no products key", "raise"}
\* the products of a non-empty answer: at most `limit` of them
FoundStocks(limit) == {ps \in CandidateLists : 1 <= Len(ps) /\ Len(ps) <= limit}

CallStockSearch ==
    /\ mpc = "idle"
    /\ \E query \in Queries, limit \in 1..2 :
        stock_call' = Some([query |-> query, limit |-> limit])
    /\ mpc' = "attempting"
    /\ attempt' = 0
    /\ stock_answers' = <<>>
    /\ stock_result' = None
    /\ UNCHANGED exceptStock

\* one pass of `for attempt in range(max_retries):`: the request, then return
\* the products, or sleep and `continue`, or return [] on the last attempt
\* and for an answer without the 'products' key
StockAttempt ==
    /\ mpc = "attempting"
    /\ attempt < max_retries
    /\ \E answer \in StockAnswers :
        /\ stock_answers' = Append(stock_answers, answer)
        /\ IF answer = "products"
           THEN /\ \E products \in FoundStocks(The(stock_call).limit) :
                    stock_result' = Some(products)
                /\ mpc' = "returned"
                /\ UNCHANGED attempt
           ELSE IF answer \in {"empty", "raise"} /\ attempt < max_retries - 1
           THEN /\ attempt' = attempt + 1
                /\ UNCHANGED <<mpc, stock_result>>
           ELSE /\ stock_result' = Some(<<>>)
                /\ mpc' = "returned"
                /\ UNCHANGED attempt
    /\ UNCHANGED stock_call
    /\ UNCHANGED exceptStock

\* the caller has the list
FinishStockSearch ==
    /\ mpc = "returned"
    /\ mpc' = "idle"
    /\ stock_call' = None
    /\ attempt' = 0
    /\ stock_answers' = <<>>
    /\ stock_result' = None
    /\ UNCHANGED exceptStock

InitStockSpec == InitOrder

NextStock ==
    \/ CallStockSearch
    \/ StockAttempt
    \/ FinishStockSearch

SpecStock == InitStockSpec /\ [][NextStock]_vars

\* ------------------------------------------ claims on the stock search
\* C26: one stock search sends no request after an empty result and at most
\* two requests in all (the original and one retry after an error).
C26_RetryOnlyOnceAndOnlyOnErrors ==
    /\ Len(stock_answers) <= 2
    /\ \A i \in DOMAIN stock_answers : stock_answers[i] = "empty" => i = Len(stock_answers)

\* ------------------------------------------- claims on the shared session
\* thread t has built a TradingAPI instance and its connect() has not ended
Building(t) == pc[t] \in {"gta_connect", "gta_connecting"}

\* C27: after a connect() that failed the shared reference is None: whenever
\* no thread is between building an instance and the end of its connect(),
\* trading_api is None or an instance whose connect() succeeded, so the next
\* get_trading_api call does not return an instance that never connected.
C27_NoStaleSessionAfterFailedConnect ==
    (\A t \in Threads : ~Building(t)) => trading_api \subseteq connected

\* C28: lazy creation is single-shot: no two threads have each built a
\* TradingAPI instance of their own after finding the shared reference None.
C28_SingleShotCreation ==
    \A t \in Threads : \A u \in Threads \ {t} : ~(Building(t) /\ Building(u))

\* the frame without the registrations of other feeds than the requested one
OwnRegistrations(items) == SelectSeq(items, LAMBDA item : IsValue(item) \/ item.feed = vwd_id)

\* C29: only registrations whose feed id equals the requested vwd_id count: a
\* frame decodes to what it decodes to without the registrations of every
\* other feed, also of a feed whose id begins with the requested id.
C29_ExactFeedMatch ==
    wpc = "decoded" => The(volume_result) = DecodeVolumes(OwnRegistrations(frame))

\* ------------------------------------------- claims on the batch scan
\* ascending, so without a symbol twice
Ascending(s) == \A i \in DOMAIN s : \A j \in DOMAIN s : i < j => s[i] < s[j]
\* worker t leaves this position in the step
Leaves(t, at) == pc[t] = at /\ pc'[t] # at

\* the response of the scan: the collected symbols, each once, by symbol
C30_ResponseShape ==
    (endpoint = "volume_nasdaq" /\ pc[0] = "respond" /\ response # None
     /\ The(response).type = "NasdaqBatchResponse")
        => /\ Ascending(The(response).stocks)
           /\ Elements(The(response).stocks) = Elements(stocks_data)
           /\ The(response).total_stocks = Cardinality(Elements(stocks_data))
\* the steps of the scan: a worker whose get_volume_data returned adds its
\* symbol, a worker whose get_volume_data raised adds nothing and leaves the
\* handler alone, nothing else adds a symbol, and the wait for the workers
\* ends in the response
C30_Step ==
    /\ \A t \in Workers :
        /\ Leaves(t, "gv_done") => stocks_data' = Append(stocks_data, The(task[t]))
        /\ Leaves(t, "gv_error")
            => stocks_data' = stocks_data /\ pc'[0] = pc[0] /\ response' = response
    /\ (pc[0] = "b_wait" /\ pc'[0] = "b_wait" /\ stocks_data' # stocks_data)
        => \E t \in Workers : Leaves(t, "gv_done")
    /\ (pc[0] = "b_wait" /\ pc'[0] # "b_wait")
        => /\ pc'[0] = "respond"
           /\ response' # None
           /\ The(response').type = "NasdaqBatchResponse"

\* C30: in every completion order of the workers a symbol whose fetch fails
\* does not end the batch scan, and the response holds exactly the symbols
\* whose get_volume_data call returned, each once, ordered by symbol, with
\* total_stocks their number.
C30_FailureIsolation == []C30_ResponseShape /\ [][C30_Step]_vars

\* C30's case: the second symbol has completed before the first, whose fetch
\* has failed, and the handler still waits for the workers
C30_Witness ==
    /\ endpoint = "volume_nasdaq"
    /\ pc[0] = "b_wait"
    /\ stocks_data = <<2>>
    /\ \E t \in Workers : pc[t] = "gv_error" /\ task[t] = Some(1)

====
